---- MODULE Spec2Model ----
(***************************************************************************)
(* Model of the CEH dataset discovery system: the multi-format ETL         *)
(* pipeline (extract, merge, persist) and the FAISS-backed retrieval       *)
(* engine with its HTTP routes and the frontend filter path.               *)
(*                                                                         *)
(* Python's None is the string None below; Optional[dict] values are       *)
(* sequences of length 0 (None) or 1 (the dict).                           *)
(***************************************************************************)
EXTENDS Integers, Sequences, FiniteSets, TLC

VARIABLES
    \* ---- ETL pipeline (ETLPipeline.process_dataset) ----
    file_identifier,   \* the identifier process_dataset was called with
    xml_data,          \* Optional[dict] returned by _extract_xml
    json_data,         \* Optional[dict] returned by _extract_json
    jsonld_data,       \* Optional[dict] returned by _extract_jsonld
    rdf_data,          \* Optional[dict] returned by _extract_rdf
    dataset,           \* Optional[Dataset] built by _merge_all_formats
    session_new,       \* objects added to the SQLAlchemy session, not yet committed
    store,             \* committed rows of the datasets table
    result,            \* return value of process_dataset
    etl_pc,            \* position inside process_dataset
    \* ---- API process (api/app.py, api/dependencies.py, api/routes/search.py) ----
    wiring,            \* which documented get_search_engine/startup_event pair is deployed
    srv_pc,            \* position of the process: boot, idle, deps, route, respond, exited
    search_engine,     \* the cached SemanticSearchEngine: <<>> or <<engine>>
    load_attempts,     \* number of times the index/model/metadata load was started
    dataset_ids,       \* metadata['dataset_ids'] of the pickled metadata file
    request,           \* the HTTP request being served: <<>> or <<request>>
    response,          \* the HTTP response to it: <<>> or <<response>>
    \* ---- batch ingestion (the loop around process_dataset) ----
    batch,             \* the file identifiers still to be processed
    total,             \* number of identifiers the batch started with
    success_count,     \* datasets process_dataset returned
    failure_count,     \* identifiers process_dataset returned None for
    error_log,         \* the failed file identifiers, in order
    batch_pc,          \* position of the loop: none, loop, call, output
    \* ---- embedding generation (EmbeddingGenerator.generate_all) ----
    index_file,        \* the FAISS index file: <<>> or <<[run, ids]>>, a vector per id
    metadata_file,     \* the pickled metadata file: <<>> or <<[run, ids]>>
    embeddings_table,  \* dataset_id of the rows of the embeddings table
    gen_datasets,      \* the rows generate_all fetched, as file identifiers
    gen_run,           \* number of generation runs started
    gen_pc,            \* position inside generate_all
    \* ---- a serving process loading while the generator may run ----
    engine_index,      \* SemanticSearchEngine.index: <<>> or what load_index read
    engine_metadata,   \* SemanticSearchEngine.metadata: <<>> or what load_metadata read
    engine_pc,         \* position: new, index, model, ready, searched
    \* ---- a client of the API ----
    remembered,        \* an earlier answer the client kept: <<>> or <<[query, top_k, keys]>>
    \* ---- one call of BaseExtractor.extract(source) ----
    ext_fmt,           \* get_source_type() of the extractor
    ext_source,        \* the source argument
    ext_pc,            \* position: validate_source, fetch, parse, validate, done
    attempt,           \* the loop variable of _fetch_data
    waits,             \* the delays slept between fetch attempts, in order
    ext_out,           \* <<>> while running, else what extract returned or raised
    \* ---- the search page (routes/search/+page.svelte) ----
    ui_searchQuery,       \* the text of the search box
    filters,           \* the $filters store (without its query field)
    ui_results,           \* <<>> or <<n>>: the result list of the response to request n
    loading,           \* the loading flag
    error,             \* <<>> (null) or <<n>>: the message of the failure of request n
    processingTime,    \* 0 or n: processing_time_ms of the response to request n
    hasSearched,       \* the hasSearched flag
    ui_pending,           \* the posts awaited: [id, route]
    issued,            \* number of requests performSearch has issued
    ui_pc,             \* idle, or perform: a handler is about to call performSearch
    \* ---- the browse page (routes/browse/+page.svelte) ----
    currentPage,       \* the page number shown and requested
    totalDatasets,     \* response.total of the last list response
    sortBy,            \* the sort field
    br_loading,        \* the page's loading flag
    awaited,           \* number of loadDatasets calls waiting for their response
    \* ---- one Modal component (common/Modal.svelte) ----
    isOpen,            \* the isOpen prop
    modal_loading,     \* the loading prop
    onConfirm,         \* whether the parent passed an onConfirm callback
    confirming,        \* handleConfirm is waiting for onConfirm()
    onClose_calls,     \* number of calls of the onClose callback
    modal_event        \* the last event the component handled

etl_vars == <<file_identifier, xml_data, json_data, jsonld_data, rdf_data,
              dataset, session_new, store, result, etl_pc>>

srv_vars == <<wiring, srv_pc, search_engine, load_attempts, dataset_ids,
              request, response>>

batch_vars == <<batch, total, success_count, failure_count, error_log, batch_pc>>

\* everything outside the pipeline call and the API process
gen_vars == <<index_file, metadata_file, embeddings_table, gen_datasets,
              gen_run, gen_pc, engine_index, engine_metadata, engine_pc>>

client_vars == <<remembered>>

ext_vars == <<ext_fmt, ext_source, ext_pc, attempt, waits, ext_out>>

page_vars == <<ui_searchQuery, filters, ui_results, loading, error, processingTime,
               hasSearched, ui_pending, issued, ui_pc>>

browse_vars == <<currentPage, totalDatasets, sortBy, br_loading, awaited>>

modal_vars == <<isOpen, modal_loading, onConfirm, confirming, onClose_calls,
                modal_event>>

ui_vars == <<page_vars, browse_vars, modal_vars>>

aux_vars == <<batch_vars, gen_vars, client_vars, ext_vars, ui_vars>>

vars == <<etl_vars, srv_vars, aux_vars>>

-----------------------------------------------------------------------------
(* Values *)

None == "None"
NoData == <<>>
Some(r) == <<r>>

\* Python truthiness of an Optional[str]
TruthyStr(v) == v # None /\ v # ""

\* str.strip() of the modelled strings: " " is the whitespace-only string
Strip(v) == IF v = " " THEN "" ELSE v

\* bool(d) of an Optional[dict]: None and {} are falsy; parsed dicts are never empty
TruthyData(d) == d # NoData

ScalarKeys == {"file_identifier", "title", "abstract", "lineage",
               "publication_date", "date_published", "metadata_date",
               "updated_date", "metadata_standard", "metadata_standard_version",
               "language", "language_uri", "credit_text",
               "bibliographic_citation", "additional_metadata",
               "spatial_extent", "spatial_coverage"}

\* a parsed dict in which every key is absent (dict.get gives None / [])
BlankData == [s |-> [k \in ScalarKeys |-> None],
              contacts |-> <<>>, creator |-> <<>>,
              keywords |-> <<>>, keywords_with_term_sets |-> <<>>,
              relationships |-> <<>>, online_resources |-> <<>>,
              raw |-> None]

\* `data.get(key) if data else None`
Get(data, key) == IF TruthyData(data) THEN data[1].s[key] ELSE None

\* `data.get(key)` for a list-valued key, [] when data is None
GetList(data, key) ==
    IF ~TruthyData(data) THEN <<>>
    ELSE CASE key = "contacts" -> data[1].contacts
           [] key = "creator" -> data[1].creator
           [] key = "keywords" -> data[1].keywords
           [] key = "keywords_with_term_sets" -> data[1].keywords_with_term_sets
           [] key = "relationships" -> data[1].relationships
           [] key = "online_resources" -> data[1].online_resources

Range(seq) == {seq[i] : i \in 1..Len(seq)}

\* the API process is not running while the pipeline runs
SrvQuiet ==
    /\ wiring = "dependency"
    /\ srv_pc = "boot"
    /\ search_engine = <<>>
    /\ load_attempts = 0
    /\ dataset_ids = <<>>
    /\ request = <<>>
    /\ response = <<>>

\* process_dataset is called on its own, outside a batch
BatchQuiet ==
    /\ batch = <<>>
    /\ total = 0
    /\ success_count = 0
    /\ failure_count = 0
    /\ error_log = <<>>
    /\ batch_pc = "none"

\* no extractor call is being followed
ExtQuiet ==
    /\ ext_fmt = "xml"
    /\ ext_source = ""
    /\ ext_pc = "done"
    /\ attempt = 0
    /\ waits = <<>>
    /\ ext_out = <<>>

\* the browse page is not open, no modal is mounted
WidgetsQuiet ==
    /\ currentPage = 1
    /\ totalDatasets = 0
    /\ sortBy = "publication_date"
    /\ br_loading = FALSE
    /\ awaited = 0
    /\ isOpen = FALSE
    /\ modal_loading = FALSE
    /\ onConfirm = FALSE
    /\ confirming = FALSE
    /\ onClose_calls = 0
    /\ modal_event = "none"

\* the search page is not open
PageQuiet ==
    /\ ui_searchQuery = ""
    /\ filters = <<>>
    /\ ui_results = <<>>
    /\ loading = FALSE
    /\ error = <<>>
    /\ processingTime = 0
    /\ hasSearched = FALSE
    /\ ui_pending = {}
    /\ issued = 0
    /\ ui_pc = "idle"

UiQuiet == PageQuiet /\ WidgetsQuiet

\* no generation run, no second serving process, no client keeping answers
GenQuiet ==
    /\ index_file = <<>>
    /\ metadata_file = <<>>
    /\ embeddings_table = <<>>
    /\ gen_datasets = <<>>
    /\ gen_run = 0
    /\ gen_pc = "idle"
    /\ engine_index = <<>>
    /\ engine_metadata = <<>>
    /\ engine_pc = "new"
    /\ remembered = <<>>
    /\ ExtQuiet
    /\ UiQuiet

-----------------------------------------------------------------------------
(* ETLPipeline._merge_all_formats *)

\* a plausible slip: `a or b or c` (first truthy) instead of first non-None
RECURSIVE coalesce_or(_)
coalesce_or(values) ==
    IF values = <<>> THEN None
    ELSE IF TruthyStr(Head(values)) THEN Head(values)
    ELSE coalesce_or(Tail(values))

\* coalesce(*values): next((v for v in values if v is not None), None)
RECURSIVE coalesce_rec(_)
coalesce_rec(values) ==
    IF values = <<>> THEN None
    ELSE IF Head(values) # None THEN Head(values)
    ELSE coalesce_rec(Tail(values))

coalesce(values) == coalesce_rec(values)

\* The source priority of every scalar field of the Dataset(...) call, in the
\* order the arguments are written: <<format, key>> pairs.
Priority(field) ==
    CASE field = "title" -> << <<"json", "title">>, <<"jsonld", "title">>,
                               <<"xml", "title">>, <<"rdf", "title">> >>
      [] field = "abstract" -> << <<"json", "abstract">>, <<"jsonld", "abstract">>,
                                  <<"xml", "abstract">>, <<"rdf", "abstract">> >>
      [] field = "lineage" -> << <<"json", "lineage">>, <<"xml", "lineage">> >>
      [] field = "publication_date" -> << <<"json", "publication_date">>,
                                          <<"xml", "publication_date">>,
                                          <<"jsonld", "date_published">> >>
      [] field = "metadata_date" -> << <<"json", "metadata_date">>,
                                       <<"xml", "metadata_date">> >>
      [] field = "updated_date" -> << <<"json", "updated_date">> >>
      [] field = "metadata_standard" -> << <<"xml", "metadata_standard">> >>
      [] field = "metadata_standard_version" ->
              << <<"xml", "metadata_standard_version">> >>
      [] field = "language" -> << <<"xml", "language">>, <<"rdf", "language_uri">> >>
      [] field = "credit_text" -> << <<"jsonld", "credit_text">>,
                                     <<"rdf", "bibliographic_citation">> >>
      [] field = "additional_metadata" -> << <<"json", "additional_metadata">> >>

MergedFields == {"title", "abstract", "lineage", "publication_date",
                 "metadata_date", "updated_date", "metadata_standard",
                 "metadata_standard_version", "language", "credit_text",
                 "additional_metadata"}

\* the dict of one format among the four arguments
DataOf(fmt, xml, json, jsonld, rdf) ==
    CASE fmt = "xml" -> xml
      [] fmt = "json" -> json
      [] fmt = "jsonld" -> jsonld
      [] fmt = "rdf" -> rdf

\* the argument list of one coalesce(...) call
Candidates(field, xml, json, jsonld, rdf) ==
    [i \in 1..Len(Priority(field)) |->
        Get(DataOf(Priority(field)[i][1], xml, json, jsonld, rdf),
            Priority(field)[i][2])]

merge_scalar(field, xml, json, jsonld, rdf) ==
    coalesce(Candidates(field, xml, json, jsonld, rdf))

\* a plausible slip: the requested identifier is not used as the last fallback
merge_file_identifier_nofallback(xml, json, fid) ==
    coalesce(<<Get(json, "file_identifier"), Get(xml, "file_identifier")>>)

\* file_identifier=coalesce(json fid, xml fid, file_identifier)
merge_file_identifier(xml, json, fid) ==
    coalesce(<<Get(json, "file_identifier"), Get(xml, "file_identifier"), fid>>)

\* spatial extent: if json.get(..) / elif xml.get(..) / elif jsonld.get(..)
merge_spatial(xml, json, jsonld) ==
    IF TruthyStr(Get(json, "spatial_extent")) THEN Get(json, "spatial_extent")
    ELSE IF TruthyStr(Get(xml, "spatial_extent")) THEN Get(xml, "spatial_extent")
    ELSE IF TruthyStr(Get(jsonld, "spatial_coverage"))
         THEN Get(jsonld, "spatial_coverage")
    ELSE None

\* contacts: JSON's list if it has any, else XML's list, else the default []
merge_contacts(xml, json) ==
    IF Len(GetList(json, "contacts")) > 0 THEN GetList(json, "contacts")
    ELSE IF Len(GetList(xml, "contacts")) > 0 THEN GetList(xml, "contacts")
    ELSE <<>>

\* keywords before enrichment: JSON's list if it has any, else XML's list
select_keywords(xml, json) ==
    IF Len(GetList(json, "keywords")) > 0 THEN GetList(json, "keywords")
    ELSE IF Len(GetList(xml, "keywords")) > 0 THEN GetList(xml, "keywords")
    ELSE <<>>

\* term_sets = {kw['keyword']: kw.get('in_defined_term_set') for kw in ...}:
\* a later entry for the same keyword replaces an earlier one
TermSetKeys(entries) == {entries[i].keyword : i \in 1..Len(entries)}
TermSetOf(entries, k) ==
    LET last == CHOOSE i \in 1..Len(entries) :
                   /\ entries[i].keyword = k
                   /\ \A j \in (i+1)..Len(entries) : entries[j].keyword # k
    IN entries[last].in_defined_term_set

\* for kw in dataset.keywords: if kw.keyword in term_sets: kw.in_defined_term_set = ...
enhance_keywords(kws, jsonld) ==
    LET entries == GetList(jsonld, "keywords_with_term_sets")
    IN IF Len(entries) = 0 THEN kws
       ELSE [i \in 1..Len(kws) |->
               IF kws[i].keyword \in TermSetKeys(entries)
               THEN [kws[i] EXCEPT !.in_defined_term_set =
                                       TermSetOf(entries, kws[i].keyword)]
               ELSE kws[i]]

merge_keywords(xml, json, jsonld) ==
    enhance_keywords(select_keywords(xml, json), jsonld)

\* raw documents: only raw_xml and raw_json are appended
merge_metadata_documents(xml, json) ==
    (IF TruthyData(xml) /\ TruthyStr(xml[1].raw)
     THEN <<[format |-> "xml", content |-> xml[1].raw]>> ELSE <<>>)
    \o
    (IF TruthyData(json) /\ TruthyStr(json[1].raw)
     THEN <<[format |-> "json", content |-> json[1].raw]>> ELSE <<>>)

merge_all_formats(xml, json, jsonld, rdf, fid) ==
    [file_identifier |-> merge_file_identifier(xml, json, fid),
     f |-> [field \in MergedFields |-> merge_scalar(field, xml, json, jsonld, rdf)],
     spatial_extent |-> merge_spatial(xml, json, jsonld),
     contacts |-> merge_contacts(xml, json),
     keywords |-> merge_keywords(xml, json, jsonld),
     relationships |-> GetList(json, "relationships"),
     online_resources |-> GetList(json, "online_resources"),
     metadata_documents |-> merge_metadata_documents(xml, json)]

-----------------------------------------------------------------------------
(* Extractors: what extract(url) can hand to the pipeline *)

Ids == {"id1", "id2"}

c1 == [full_name |-> "Ann", email |-> "ann@ceh"]
c2 == [full_name |-> "Bob", email |-> "bob@ceh"]
k1 == [keyword |-> "soil", keyword_type |-> "theme", in_defined_term_set |-> None]
k2 == [keyword |-> "river", keyword_type |-> "place", in_defined_term_set |-> None]

\* XMLExtractor._parse_data on some response body for `fid`
ParsedXml(fid) ==
    {[BlankData EXCEPT !.s.file_identifier = i, !.s.title = t,
                       !.contacts = cs, !.raw = "raw-xml"] :
        i \in {None, fid}, t \in {None, "T-xml"}, cs \in {<<>>, <<c1>>}}

\* JSONExtractor._parse_data on some response body for `fid`
ParsedJson(fid) ==
    {[BlankData EXCEPT !.s.file_identifier = i, !.s.title = t,
                       !.contacts = cs, !.raw = "raw-json"] :
        i \in {None, fid}, t \in {None, "", " ", "T-json"}, cs \in {<<>>, <<c2>>}}

\* JSONLDExtractor._parse_data
ParsedJsonld(fid) ==
    {[BlankData EXCEPT !.s.title = t, !.raw = "raw-jsonld"] : t \in {None, "T-jsonld"}}

\* RDFExtractor._parse_data
ParsedRdf(fid) ==
    {[BlankData EXCEPT !.s.title = t, !.raw = "raw-rdf"] : t \in {None, "T-rdf"}}

\* BaseExtractor.validate: data is not None and len(data) > 0
validate_default(data) == TRUE

\* JSONExtractor.validate: bool(file_identifier) and bool(title)
validate_json(data) ==
    TruthyStr(data.s.file_identifier) /\ TruthyStr(data.s.title)

\* extract() returns the parsed dict when validation passes and raises
\* ExtractionError otherwise; _extract_<fmt> turns any exception into None
ValidateOf(fmt, data) == IF fmt = "json" THEN validate_json(data) ELSE validate_default(data)

ExtractOutcomes(parsed, fmt) ==
    {NoData} \cup {Some(p) : p \in {q \in parsed : ValidateOf(fmt, q)}}

-----------------------------------------------------------------------------
(* DatasetRepository.add and the session *)

\* a plausible slip: the title test without strip()
TitleMissing_nostrip(d) == ~TruthyStr(d.f.title)

\* dataset.title is empty: `not title or not title.strip()`
TitleMissing(d) == ~TruthyStr(d.f.title) \/ ~TruthyStr(Strip(d.f.title))

get_by_file_identifier(rows, fid) == {i \in 1..Len(rows) : rows[i].file_identifier = fid}

\* a plausible slip: add without the uniqueness lookup
AddRaises_nolookup(rows, d) == TitleMissing(d) \/ ~TruthyStr(d.file_identifier)

\* add raises ValueError on an empty title, a missing identifier or a duplicate
AddRaises(rows, d) ==
    \/ TitleMissing(d)
    \/ ~TruthyStr(d.file_identifier)
    \/ get_by_file_identifier(rows, d.file_identifier) # {}

\* a plausible slip: the except branch logs but keeps the pending objects
rollback_keeps(pending) == pending

\* self.session.rollback(): the pending objects are discarded
rollback(pending) == <<>>

\* a row an earlier run of the pipeline left in the datasets table
ExistingRow(fid) ==
    merge_all_formats(NoData,
                      Some([BlankData EXCEPT !.s.file_identifier = fid,
                                             !.s.title = "T-old", !.raw = "raw-json"]),
                      NoData, NoData, fid)

InitialStores == {<<>>} \cup {<<ExistingRow(i)>> : i \in Ids}

-----------------------------------------------------------------------------
(* ETLPipeline.process_dataset *)

InitEtl ==
    /\ file_identifier \in Ids
    /\ xml_data = NoData
    /\ json_data = NoData
    /\ jsonld_data = NoData
    /\ rdf_data = NoData
    /\ dataset = NoData
    /\ session_new = <<>>
    /\ store \in InitialStores
    /\ result = NoData
    /\ etl_pc = "extract_xml"
    /\ SrvQuiet
    /\ BatchQuiet
    /\ GenQuiet

ExtractXml ==
    /\ etl_pc = "extract_xml"
    /\ xml_data' \in ExtractOutcomes(ParsedXml(file_identifier), "xml")
    /\ etl_pc' = "extract_json"
    /\ UNCHANGED <<file_identifier, json_data, jsonld_data, rdf_data, dataset,
                   session_new, store, result>>
    /\ UNCHANGED <<srv_vars, aux_vars>>

ExtractJson ==
    /\ etl_pc = "extract_json"
    /\ json_data' \in ExtractOutcomes(ParsedJson(file_identifier), "json")
    /\ etl_pc' = "extract_jsonld"
    /\ UNCHANGED <<file_identifier, xml_data, jsonld_data, rdf_data, dataset,
                   session_new, store, result>>
    /\ UNCHANGED <<srv_vars, aux_vars>>

ExtractJsonld ==
    /\ etl_pc = "extract_jsonld"
    /\ jsonld_data' \in ExtractOutcomes(ParsedJsonld(file_identifier), "jsonld")
    /\ etl_pc' = "extract_rdf"
    /\ UNCHANGED <<file_identifier, xml_data, json_data, rdf_data, dataset,
                   session_new, store, result>>
    /\ UNCHANGED <<srv_vars, aux_vars>>

ExtractRdf ==
    /\ etl_pc = "extract_rdf"
    /\ rdf_data' \in ExtractOutcomes(ParsedRdf(file_identifier), "rdf")
    /\ etl_pc' = "check"
    /\ UNCHANGED <<file_identifier, xml_data, json_data, jsonld_data, dataset,
                   session_new, store, result>>
    /\ UNCHANGED <<srv_vars, aux_vars>>

\* a plausible slip: the "at least one format" check is left out
AnyData_unchecked == TRUE

\* any([xml_data, json_data, jsonld_data, rdf_data])
AnyData == TruthyData(xml_data) \/ TruthyData(json_data)
           \/ TruthyData(jsonld_data) \/ TruthyData(rdf_data)

\* `if not any(...)`: log the error and return None
NoDataExtracted ==
    /\ etl_pc = "check"
    /\ ~AnyData
    /\ result' = NoData
    /\ etl_pc' = "done"
    /\ UNCHANGED <<file_identifier, xml_data, json_data, jsonld_data, rdf_data,
                   dataset, session_new, store>>
    /\ UNCHANGED <<srv_vars, aux_vars>>

Merge ==
    /\ etl_pc = "check"
    /\ AnyData
    /\ dataset' = Some(merge_all_formats(xml_data, json_data, jsonld_data,
                                         rdf_data, file_identifier))
    /\ etl_pc' = "add"
    /\ UNCHANGED <<file_identifier, xml_data, json_data, jsonld_data, rdf_data,
                   session_new, store, result>>
    /\ UNCHANGED <<srv_vars, aux_vars>>

\* self.repository.add(dataset) goes through
AddOk ==
    /\ etl_pc = "add"
    /\ ~AddRaises(store, dataset[1])
    /\ session_new' = Append(session_new, dataset[1])
    /\ etl_pc' = "commit"
    /\ UNCHANGED <<file_identifier, xml_data, json_data, jsonld_data, rdf_data,
                   dataset, store, result>>
    /\ UNCHANGED <<srv_vars, aux_vars>>

\* add raises: except branch, session.rollback(), return None
AddFails ==
    /\ etl_pc = "add"
    /\ AddRaises(store, dataset[1])
    /\ session_new' = rollback(session_new)
    /\ result' = NoData
    /\ etl_pc' = "done"
    /\ UNCHANGED <<file_identifier, xml_data, json_data, jsonld_data, rdf_data,
                   dataset, store>>
    /\ UNCHANGED <<srv_vars, aux_vars>>

\* self.session.commit() succeeds; return dataset
CommitOk ==
    /\ etl_pc = "commit"
    /\ store' = store \o session_new
    /\ session_new' = <<>>
    /\ result' = dataset
    /\ etl_pc' = "done"
    /\ UNCHANGED <<file_identifier, xml_data, json_data, jsonld_data, rdf_data,
                   dataset>>
    /\ UNCHANGED <<srv_vars, aux_vars>>

\* self.session.commit() raises (database error): rollback, return None
CommitFails ==
    /\ etl_pc = "commit"
    /\ session_new' = rollback(session_new)
    /\ result' = NoData
    /\ etl_pc' = "done"
    /\ UNCHANGED <<file_identifier, xml_data, json_data, jsonld_data, rdf_data,
                   dataset, store>>
    /\ UNCHANGED <<srv_vars, aux_vars>>

NextEtl ==
    \/ ExtractXml \/ ExtractJson \/ ExtractJsonld \/ ExtractRdf
    \/ NoDataExtracted \/ Merge
    \/ AddOk \/ AddFails \/ CommitOk \/ CommitFails

SpecEtl == InitEtl /\ [][NextEtl]_vars

-----------------------------------------------------------------------------
(* _merge_all_formats as a pure function: inputs drawn in the initial state *)

MaxItems == 2

\* all sequences over S of length at most n
RECURSIVE SeqsUpTo(_, _)
SeqsUpTo(S, n) ==
    IF n = 0 THEN {<<>>}
    ELSE LET shorter == SeqsUpTo(S, n - 1)
         IN shorter \cup {Append(q, x) : q \in shorter, x \in S}

Formats == {"xml", "json", "jsonld", "rdf"}

\* the smallest dict each extractor returns for `fid` once validation passed
BaseData(fmt, fid) ==
    CASE fmt = "xml" -> [BlankData EXCEPT !.s.file_identifier = fid, !.raw = "raw-xml"]
      [] fmt = "json" -> [BlankData EXCEPT !.s.file_identifier = fid,
                                           !.s.title = "T-json", !.raw = "raw-json"]
      [] fmt = "jsonld" -> [BlankData EXCEPT !.raw = "raw-jsonld"]
      [] fmt = "rdf" -> [BlankData EXCEPT !.raw = "raw-rdf"]


ValueOf(fmt) ==
    CASE fmt = "xml" -> "v-xml" [] fmt = "json" -> "v-json"
      [] fmt = "jsonld" -> "v-jsonld" [] fmt = "rdf" -> "v-rdf"

\* the key under which `fmt` carries `field`, or None when it does not carry it
KeyOf(fmt, field) ==
    LET hits == {i \in 1..Len(Priority(field)) : Priority(field)[i][1] = fmt}
    IN IF hits = {} THEN None ELSE Priority(field)[CHOOSE i \in hits : TRUE][2]

\* what extract() of `fmt` can return when only `field` varies in the payload
ScalarOutcomes(fmt, field, fid) ==
    LET key == KeyOf(fmt, field)
        parsed == IF key = None THEN {BaseData(fmt, fid)}
                  ELSE {[BaseData(fmt, fid) EXCEPT !.s[key] = v] :
                            v \in {None, "", ValueOf(fmt)}}
    IN ExtractOutcomes(parsed, fmt)

InitMergeVars ==
    /\ file_identifier \in Ids
    /\ dataset = NoData
    /\ session_new = <<>>
    /\ store = <<>>
    /\ result = NoData
    /\ etl_pc = "check"
    /\ SrvQuiet
    /\ BatchQuiet
    /\ GenQuiet

InitCoalesce ==
    /\ InitMergeVars
    /\ \E field \in MergedFields :
          /\ xml_data \in ScalarOutcomes("xml", field, file_identifier)
          /\ json_data \in ScalarOutcomes("json", field, file_identifier)
          /\ jsonld_data \in ScalarOutcomes("jsonld", field, file_identifier)
          /\ rdf_data \in ScalarOutcomes("rdf", field, file_identifier)

SpecCoalesce == InitCoalesce /\ [][Merge]_vars

ContactVals == {c1, c2}
KeywordVals == {k1, k2}
TermSetVals == {[keyword |-> "soil", in_defined_term_set |-> "uri:soil"],
                [keyword |-> "river", in_defined_term_set |-> None]}

ContactOutcomes(fmt, fid) ==
    {NoData} \cup
    {Some(IF fmt = "jsonld" THEN [BaseData(fmt, fid) EXCEPT !.creator = l]
          ELSE IF fmt = "rdf" THEN BaseData(fmt, fid)
          ELSE [BaseData(fmt, fid) EXCEPT !.contacts = l]) :
        l \in SeqsUpTo(ContactVals, MaxItems)}

KeywordOutcomes(fmt, fid) ==
    {NoData} \cup
    IF fmt = "jsonld"
    THEN {Some([BaseData(fmt, fid) EXCEPT !.keywords_with_term_sets = l]) :
              l \in SeqsUpTo(TermSetVals, MaxItems)}
    ELSE {Some([BaseData(fmt, fid) EXCEPT !.keywords = l]) :
              l \in SeqsUpTo(KeywordVals, MaxItems)}

\* the contacts path and the keywords path of the merge share no data, so the
\* inputs vary one collection at a time
InitCollections ==
    /\ InitMergeVars
    /\ \/ /\ xml_data \in ContactOutcomes("xml", file_identifier)
          /\ json_data \in ContactOutcomes("json", file_identifier)
          /\ jsonld_data \in ContactOutcomes("jsonld", file_identifier)
          /\ rdf_data \in ContactOutcomes("rdf", file_identifier)
       \/ /\ xml_data \in KeywordOutcomes("xml", file_identifier)
          /\ json_data \in KeywordOutcomes("json", file_identifier)
          /\ jsonld_data \in KeywordOutcomes("jsonld", file_identifier)
          /\ rdf_data \in KeywordOutcomes("rdf", file_identifier)

SpecCollections == InitCollections /\ [][Merge]_vars

-----------------------------------------------------------------------------
(* Batch processing: FOR EACH file_identifier IN batch *)

MaxBatch == 2

\* the batch has not started: a fresh database, a clean session, no call in progress
InitBatch ==
    /\ batch \in SeqsUpTo(Ids, MaxBatch)
    /\ total = Len(batch)
    /\ success_count = 0
    /\ failure_count = 0
    /\ error_log = <<>>
    /\ batch_pc = "loop"
    /\ file_identifier = "id1"
    /\ xml_data = NoData
    /\ json_data = NoData
    /\ jsonld_data = NoData
    /\ rdf_data = NoData
    /\ dataset = NoData
    /\ session_new = <<>>
    /\ store = <<>>
    /\ result = NoData
    /\ etl_pc = "done"
    /\ SrvQuiet
    /\ GenQuiet

\* result = pipeline.process_dataset(file_identifier): the call starts
BatchCall ==
    /\ batch_pc = "loop"
    /\ batch # <<>>
    /\ file_identifier' = Head(batch)
    /\ xml_data' = NoData
    /\ json_data' = NoData
    /\ jsonld_data' = NoData
    /\ rdf_data' = NoData
    /\ dataset' = NoData
    /\ result' = NoData
    /\ etl_pc' = "extract_xml"
    /\ batch_pc' = "call"
    /\ UNCHANGED <<session_new, store>>
    /\ UNCHANGED <<batch, total, success_count, failure_count, error_log>>
    /\ UNCHANGED <<srv_vars, gen_vars, client_vars, ext_vars, ui_vars>>

\* the call has returned: its locals are gone, the session and the table stay
ReturnFromCall ==
    /\ xml_data' = NoData
    /\ json_data' = NoData
    /\ jsonld_data' = NoData
    /\ rdf_data' = NoData
    /\ dataset' = NoData
    /\ result' = NoData
    /\ UNCHANGED <<file_identifier, session_new, store, etl_pc>>

\* a plausible slip: a failed identifier is logged but not counted
failed_uncounted(n) == n

\* failure_count += 1
failed(n) == n + 1

\* IF result: success_count += 1
BatchSuccess ==
    /\ batch_pc = "call"
    /\ etl_pc = "done"
    /\ result # NoData
    /\ success_count' = success_count + 1
    /\ batch' = Tail(batch)
    /\ batch_pc' = "loop"
    /\ ReturnFromCall
    /\ UNCHANGED <<total, failure_count, error_log>>
    /\ UNCHANGED <<srv_vars, gen_vars, client_vars, ext_vars, ui_vars>>

\* ELSE: failure_count += 1, the identifier goes to the error log
BatchFailure ==
    /\ batch_pc = "call"
    /\ etl_pc = "done"
    /\ result = NoData
    /\ failure_count' = failed(failure_count)
    /\ error_log' = Append(error_log, file_identifier)
    /\ batch' = Tail(batch)
    /\ batch_pc' = "loop"
    /\ ReturnFromCall
    /\ UNCHANGED <<total, success_count>>
    /\ UNCHANGED <<srv_vars, gen_vars, client_vars, ext_vars, ui_vars>>

\* the loop is over: the counts and the error log are the output
BatchOutput ==
    /\ batch_pc = "loop"
    /\ batch = <<>>
    /\ batch_pc' = "output"
    /\ UNCHANGED <<batch, total, success_count, failure_count, error_log>>
    /\ UNCHANGED etl_vars
    /\ UNCHANGED <<srv_vars, gen_vars, client_vars, ext_vars, ui_vars>>

NextBatch ==
    \/ BatchCall
    \/ NextEtl
    \/ BatchSuccess \/ BatchFailure
    \/ BatchOutput

SpecBatch == InitBatch /\ [][NextBatch]_vars

\* the loop always reaches its output when every step is eventually taken
FairBatch == SpecBatch /\ WF_vars(NextBatch)

-----------------------------------------------------------------------------
(* EmbeddingGenerator.generate_all and SemanticSearchEngine loading *)

MaxRuns == 2

IdOrder == <<"id1", "id2">>

HasKey(rows, fid) == get_by_file_identifier(rows, fid) # {}

\* SELECT ... FROM datasets ORDER BY file_identifier
fetch_datasets(rows) == SelectSeq(IdOrder, LAMBDA fid : HasKey(rows, fid))

\* the number of vectors of an index file, of ids of a metadata file
Size(file) == IF file = NoData THEN 0 ELSE Len(file[1].ids)

\* nothing generated yet, the table is empty or holds rows of earlier ETL runs
InitGenerate ==
    /\ index_file = <<>>
    /\ metadata_file = <<>>
    /\ embeddings_table = <<>>
    /\ gen_datasets = <<>>
    /\ gen_run = 0
    /\ gen_pc = "idle"
    /\ engine_index = <<>>
    /\ engine_metadata = <<>>
    /\ engine_pc = "new"
    /\ file_identifier = "id1"
    /\ xml_data = NoData
    /\ json_data = NoData
    /\ jsonld_data = NoData
    /\ rdf_data = NoData
    /\ dataset = NoData
    /\ session_new = <<>>
    /\ store \in InitialStores
    /\ result = NoData
    /\ etl_pc = "done"
    /\ SrvQuiet
    /\ BatchQuiet
    /\ remembered = <<>>
    /\ ExtQuiet
    /\ UiQuiet

\* between two generation runs the ETL pipeline commits one more dataset
IngestBetweenRuns ==
    /\ gen_pc = "idle"
    /\ \E fid \in Ids :
          /\ ~HasKey(store, fid)
          /\ store' = Append(store, ExistingRow(fid))
    /\ UNCHANGED <<file_identifier, xml_data, json_data, jsonld_data, rdf_data,
                   dataset, session_new, result, etl_pc>>
    /\ UNCHANGED <<srv_vars, batch_vars, gen_vars, client_vars, ext_vars, ui_vars>>

\* Step 1: datasets = self.fetch_datasets(), and there are some
GenFetch ==
    /\ gen_pc = "idle"
    /\ gen_run < MaxRuns
    /\ fetch_datasets(store) # <<>>
    /\ gen_run' = gen_run + 1
    /\ gen_datasets' = fetch_datasets(store)
    /\ gen_pc' = "embed"
    /\ UNCHANGED <<index_file, metadata_file, embeddings_table>>
    /\ UNCHANGED <<engine_index, engine_metadata, engine_pc>>
    /\ UNCHANGED <<etl_vars, srv_vars, batch_vars, client_vars, ext_vars, ui_vars>>

\* `if not datasets`: return {'success': False, ...}; nothing is written
GenNoDatasets ==
    /\ gen_pc = "idle"
    /\ gen_run < MaxRuns
    /\ fetch_datasets(store) = <<>>
    /\ gen_run' = gen_run + 1
    /\ gen_datasets' = <<>>
    /\ gen_pc' = "done"
    /\ UNCHANGED <<index_file, metadata_file, embeddings_table>>
    /\ UNCHANGED <<engine_index, engine_metadata, engine_pc>>
    /\ UNCHANGED <<etl_vars, srv_vars, batch_vars, client_vars, ext_vars, ui_vars>>

\* Steps 2 and 3: generate_embeddings, create_faiss_index (in memory)
GenEmbed ==
    /\ gen_pc = "embed"
    /\ gen_pc' = "save_index"
    /\ UNCHANGED <<index_file, metadata_file, embeddings_table, gen_datasets, gen_run>>
    /\ UNCHANGED <<engine_index, engine_metadata, engine_pc>>
    /\ UNCHANGED <<etl_vars, srv_vars, batch_vars, client_vars, ext_vars, ui_vars>>

\* Step 4: save_index: faiss.write_index to FAISS_INDEX_PATH
GenSaveIndex ==
    /\ gen_pc = "save_index"
    /\ index_file' = Some([run |-> gen_run, ids |-> gen_datasets])
    /\ gen_pc' = "save_metadata"
    /\ UNCHANGED <<metadata_file, embeddings_table, gen_datasets, gen_run>>
    /\ UNCHANGED <<engine_index, engine_metadata, engine_pc>>
    /\ UNCHANGED <<etl_vars, srv_vars, batch_vars, client_vars, ext_vars, ui_vars>>

\* Step 5: save_metadata: pickle.dump to METADATA_PATH
GenSaveMetadata ==
    /\ gen_pc = "save_metadata"
    /\ metadata_file' = Some([run |-> gen_run, ids |-> gen_datasets])
    /\ gen_pc' = "update_database"
    /\ UNCHANGED <<index_file, embeddings_table, gen_datasets, gen_run>>
    /\ UNCHANGED <<engine_index, engine_metadata, engine_pc>>
    /\ UNCHANGED <<etl_vars, srv_vars, batch_vars, client_vars, ext_vars, ui_vars>>

\* Step 6: update_database: DELETE FROM embeddings, one INSERT per dataset, commit
GenUpdateDatabase ==
    /\ gen_pc = "update_database"
    /\ embeddings_table' = gen_datasets
    /\ gen_pc' = "done"
    /\ UNCHANGED <<index_file, metadata_file, gen_datasets, gen_run>>
    /\ UNCHANGED <<engine_index, engine_metadata, engine_pc>>
    /\ UNCHANGED <<etl_vars, srv_vars, batch_vars, client_vars, ext_vars, ui_vars>>

\* a step raises (model download, disk, database): generate_all has no handler,
\* the run ends there, and an uncommitted DELETE/INSERT is lost with the connection
GenFails ==
    /\ gen_pc \in {"embed", "save_index", "save_metadata", "update_database"}
    /\ gen_pc' = "done"
    /\ UNCHANGED <<index_file, metadata_file, embeddings_table, gen_datasets, gen_run>>
    /\ UNCHANGED <<engine_index, engine_metadata, engine_pc>>
    /\ UNCHANGED <<etl_vars, srv_vars, batch_vars, client_vars, ext_vars, ui_vars>>

\* the script exits
GenExit ==
    /\ gen_pc = "done"
    /\ gen_datasets' = <<>>
    /\ gen_pc' = "idle"
    /\ UNCHANGED <<index_file, metadata_file, embeddings_table, gen_run>>
    /\ UNCHANGED <<engine_index, engine_metadata, engine_pc>>
    /\ UNCHANGED <<etl_vars, srv_vars, batch_vars, client_vars, ext_vars, ui_vars>>

\* engine.load_index(): faiss.read_index(FAISS_INDEX_PATH)
EngineLoadIndex ==
    /\ engine_pc = "new"
    /\ index_file # NoData
    /\ engine_index' = index_file
    /\ engine_pc' = "index"
    /\ UNCHANGED <<index_file, metadata_file, embeddings_table, gen_datasets,
                   gen_run, gen_pc, engine_metadata>>
    /\ UNCHANGED <<etl_vars, srv_vars, batch_vars, client_vars, ext_vars, ui_vars>>

\* engine.load_model()
EngineLoadModel ==
    /\ engine_pc = "index"
    /\ engine_pc' = "model"
    /\ UNCHANGED <<index_file, metadata_file, embeddings_table, gen_datasets,
                   gen_run, gen_pc, engine_index, engine_metadata>>
    /\ UNCHANGED <<etl_vars, srv_vars, batch_vars, client_vars, ext_vars, ui_vars>>

\* engine.load_metadata(): pickle.load of METADATA_PATH
EngineLoadMetadata ==
    /\ engine_pc = "model"
    /\ metadata_file # NoData
    /\ engine_metadata' = metadata_file
    /\ engine_pc' = "ready"
    /\ UNCHANGED <<index_file, metadata_file, embeddings_table, gen_datasets,
                   gen_run, gen_pc, engine_index>>
    /\ UNCHANGED <<etl_vars, srv_vars, batch_vars, client_vars, ext_vars, ui_vars>>

\* open() raises FileNotFoundError: get_search_engine raises, nothing is
\* cached, the half-loaded engine is dropped
EngineLoadFails ==
    /\ engine_pc = "model"
    /\ metadata_file = NoData
    /\ engine_index' = <<>>
    /\ engine_pc' = "new"
    /\ UNCHANGED <<index_file, metadata_file, embeddings_table, gen_datasets,
                   gen_run, gen_pc, engine_metadata>>
    /\ UNCHANGED <<etl_vars, srv_vars, batch_vars, client_vars, ext_vars, ui_vars>>

\* engine.search(query, top_k) on the cached engine: load_index and
\* load_metadata return what is in memory
EngineSearch ==
    /\ engine_pc = "ready"
    /\ engine_pc' = "searched"
    /\ UNCHANGED <<index_file, metadata_file, embeddings_table, gen_datasets,
                   gen_run, gen_pc, engine_index, engine_metadata>>
    /\ UNCHANGED <<etl_vars, srv_vars, batch_vars, client_vars, ext_vars, ui_vars>>

NextGenerate ==
    \/ IngestBetweenRuns
    \/ GenFetch \/ GenNoDatasets \/ GenEmbed
    \/ GenSaveIndex \/ GenSaveMetadata \/ GenUpdateDatabase
    \/ GenFails \/ GenExit
    \/ EngineLoadIndex \/ EngineLoadModel \/ EngineLoadMetadata
    \/ EngineLoadFails \/ EngineSearch

SpecGenerate == InitGenerate /\ [][NextGenerate]_vars

-----------------------------------------------------------------------------
(* BaseExtractor.extract: the template method and its fetch loop *)

RetryCount == 3

\* source arguments: empty, not an http(s) URL, a catalogue URL
Sources == {"", "ftp://host/id1", "https://host/id1"}

\* _validate_source: a non-empty str that starts with http:// or https://
validate_source(source) == source = "https://host/id1"

\* what a subclass's _parse_data can return for a response body
ParsedOf(fmt) ==
    CASE fmt = "xml" -> ParsedXml("id1")
      [] fmt = "json" -> ParsedJson("id1")
      [] fmt = "jsonld" -> ParsedJsonld("id1")
      [] fmt = "rdf" -> ParsedRdf("id1")

\* the `except Exception as e` of extract:
\* raise ExtractionError(f"Failed to extract from {source}: {e}");
\* ExtractionError is a bare Exception subclass, the message is all it holds
ExtractionError(source, cause) ==
    <<[kind |-> "ExtractionError", data |-> NoData,
       message |-> <<"Failed to extract from", source>> \o cause]>>

InitExtract ==
    /\ ext_fmt \in Formats
    /\ ext_source \in Sources
    /\ ext_pc = "validate_source"
    /\ attempt = 0
    /\ waits = <<>>
    /\ ext_out = <<>>
    /\ file_identifier = "id1"
    /\ xml_data = NoData
    /\ json_data = NoData
    /\ jsonld_data = NoData
    /\ rdf_data = NoData
    /\ dataset = NoData
    /\ session_new = <<>>
    /\ store = <<>>
    /\ result = NoData
    /\ etl_pc = "done"
    /\ SrvQuiet
    /\ BatchQuiet
    /\ index_file = <<>>
    /\ metadata_file = <<>>
    /\ embeddings_table = <<>>
    /\ gen_datasets = <<>>
    /\ gen_run = 0
    /\ gen_pc = "idle"
    /\ engine_index = <<>>
    /\ engine_metadata = <<>>
    /\ engine_pc = "new"
    /\ remembered = <<>>
    /\ UiQuiet

\* Step 1: `if not self._validate_source(source): raise ExtractionError(...)`
ValidateSource ==
    /\ ext_pc = "validate_source"
    /\ IF validate_source(ext_source)
       THEN ext_pc' = "fetch" /\ ext_out' = ext_out
       ELSE /\ ext_pc' = "done"
            /\ ext_out' = ExtractionError(ext_source, <<"Invalid source", ext_source>>)
    /\ UNCHANGED <<ext_fmt, ext_source, attempt, waits>>
    /\ UNCHANGED <<etl_vars, srv_vars, batch_vars, gen_vars, client_vars, ui_vars>>

\* Step 2, one pass of `for attempt in range(self.retry_count)`: session.get
\* returns the content, or raises RequestException, after which the loop
\* either goes straight to the next attempt or, on the last one, raises
FetchAttempt ==
    /\ ext_pc = "fetch"
    /\ attempt < RetryCount
    /\ \/ /\ ext_pc' = "parse"
          /\ UNCHANGED <<attempt, ext_out>>
       \/ /\ attempt = RetryCount - 1
          /\ ext_pc' = "done"
          /\ ext_out' = ExtractionError(ext_source,
                            <<"Failed after attempts", "RequestException">>)
          /\ UNCHANGED attempt
       \/ /\ attempt < RetryCount - 1
          /\ attempt' = attempt + 1
          /\ UNCHANGED <<ext_pc, ext_out>>
    /\ UNCHANGED <<ext_fmt, ext_source, waits>>
    /\ UNCHANGED <<etl_vars, srv_vars, batch_vars, gen_vars, client_vars, ui_vars>>

\* Step 3: _parse_data returns the dict, raises ExtractionError("<FORMAT>
\* parsing failed: ...") on a decode error, or raises something else (e.g.
\* AttributeError on a JSON array)
ParseData ==
    /\ ext_pc = "parse"
    /\ \/ /\ \E parsed \in ParsedOf(ext_fmt) :
                ext_out' = <<[kind |-> "parsed", data |-> Some(parsed), message |-> <<>>]>>
          /\ ext_pc' = "validate"
       \/ /\ \E cause \in {<<ext_fmt, "parsing failed">>, <<"AttributeError">>} :
                ext_out' = ExtractionError(ext_source, cause)
          /\ ext_pc' = "done"
    /\ UNCHANGED <<ext_fmt, ext_source, attempt, waits>>
    /\ UNCHANGED <<etl_vars, srv_vars, batch_vars, gen_vars, client_vars, ui_vars>>

\* Step 4: `if not self.validate(parsed_data): raise ...`, else return it
ValidateResult ==
    /\ ext_pc = "validate"
    /\ IF ValidateOf(ext_fmt, ext_out[1].data[1])
       THEN ext_out' = <<[ext_out[1] EXCEPT !.kind = "returned"]>>
       ELSE ext_out' = ExtractionError(ext_source, <<"Data validation failed">>)
    /\ ext_pc' = "done"
    /\ UNCHANGED <<ext_fmt, ext_source, attempt, waits>>
    /\ UNCHANGED <<etl_vars, srv_vars, batch_vars, gen_vars, client_vars, ui_vars>>

NextExtract ==
    \/ ValidateSource
    \/ FetchAttempt
    \/ ParseData
    \/ ValidateResult

SpecExtract == InitExtract /\ [][NextExtract]_vars

-----------------------------------------------------------------------------
(* The corpus the API serves: FAISS index, metadata file, datasets table *)

NumSlots == 4

\* metadata['dataset_ids'] as the index builder wrote it: slot i holds dataset i+1
BuiltIds == [i \in 1..NumSlots |-> i]

\* ids of the rows of the datasets table: dataset 3 was deleted after indexing
DbIds == {i \in 1..NumSlots : i # 3}

\* the columns and related rows of a dataset that the routes read
Row(id) ==
    CASE id = 1 -> [publication_date |-> 1, keywords |-> {"soil moisture"},
                    authors |-> {"Ann Lee"}, organizations |-> {"UKCEH"},
                    formats |-> {"csv"}, spatial |-> "uk"]
      [] id = 2 -> [publication_date |-> 3, keywords |-> {"soil carbon"},
                    authors |-> {"Bob Ray"}, organizations |-> {"BGS"},
                    formats |-> {"netcdf"}, spatial |-> "arctic"]
      [] OTHER -> [publication_date |-> 0, keywords |-> {"water"},
                   authors |-> {"Ann Lee"}, organizations |-> {"UKCEH"},
                   formats |-> {"csv"}, spatial |-> "uk"]

\* SQL `column.contains(needle)` (LIKE '%needle%') on the modelled strings
Contains(hay, needle) ==
    \/ needle = hay
    \/ <<hay, needle>> \in {<<"soil moisture", "soil">>, <<"soil carbon", "soil">>,
                            <<"Ann Lee", "Ann">>}

\* ISO dates on the wire; a date value is its position in this list, and a
\* missing date (NULL, null, None) is NoDate
NoDate == 0

DateStrs == <<"2024-01-01", "2024-01-02", "2024-01-03">>

\* the queries: empty, whitespace only, two ordinary ones, one of 501 characters
Queries == {"", " ", "soil", "water", "long"}

MaxQueryLen == 500
MaxTopK == 100
PageTopK == 20

StrLen(q) ==
    CASE q = "" -> 0
      [] q = " " -> 1
      [] q = "long" -> MaxQueryLen + 1
      [] OTHER -> 4

-----------------------------------------------------------------------------
(* SemanticSearchEngine *)

NewEngine == [index |-> FALSE, model |-> FALSE, metadata |-> FALSE]
LoadedEngine == [index |-> TRUE, model |-> TRUE, metadata |-> TRUE]

\* the engine after the load sequence load_index, load_model, load_metadata
\* raised at `stage`
PartialEngine(stage) ==
    CASE stage = "index" -> NewEngine
      [] stage = "model" -> [NewEngine EXCEPT !.index = TRUE]
      [] stage = "metadata" -> [NewEngine EXCEPT !.index = TRUE, !.model = TRUE]

LoadStages == {"index", "model", "metadata"}

\* nearest neighbours of the query among the slots 0..ntotal-1, best first
Ranking(q) ==
    IF q = "water" THEN [i \in 1..NumSlots |-> NumSlots - i]
    ELSE [i \in 1..NumSlots |-> i - 1]

\* index.search(query_vector, top_k): zip(scores[0], indices[0]); FAISS fills
\* the positions beyond ntotal with label -1 and the lowest score
index_search(q, top_k) ==
    [i \in 1..top_k |-> IF i <= NumSlots THEN <<NumSlots + 1 - i, Ranking(q)[i]>>
                        ELSE <<-1, -1>>]

\* Python list indexing: a negative index counts from the end
PyIndex(list, idx) ==
    IF idx >= 0 THEN list[idx + 1] ELSE list[Len(list) + idx + 1]

\* the loop over the hits: `if idx < len(metadata['dataset_ids'])`
RECURSIVE search_from(_, _, _)
search_from(hits, ids, i) ==
    IF i > Len(hits) THEN <<>>
    ELSE LET score == hits[i][1]
             idx == hits[i][2]
             item == [rank |-> i, dataset_id |-> PyIndex(ids, idx),
                      similarity_score |-> score]
         IN (IF idx < Len(ids) THEN <<item>> ELSE <<>>)
            \o search_from(hits, ids, i + 1)

\* SemanticSearchEngine.search(query, top_k)
search(q, top_k, ids) == search_from(index_search(q, top_k), ids, 1)

-----------------------------------------------------------------------------
(* Request models and routes *)

\* a JSON body: every key the clients send; an absent key is None (a list: <<>>)
BlankBody ==
    [query |-> None, top_k |-> 0, authors |-> <<>>, organizations |-> <<>>,
     keywords |-> <<>>, formats |-> <<>>, start_date |-> None, end_date |-> None,
     date_from |-> None, date_to |-> None, spatial_extent |-> None]

\* SemanticSearchRequest: query 1..500 characters and not only whitespace,
\* top_k in 1..100
ValidSemantic(body) ==
    /\ StrLen(body.query) >= 1
    /\ StrLen(body.query) <= MaxQueryLen
    /\ Strip(body.query) # ""
    /\ body.top_k >= 1
    /\ body.top_k <= MaxTopK

\* validate_date_format: None, or datetime.strptime(v, '%Y-%m-%d') succeeds
validate_date_format(v) == v = None \/ \E d \in 1..Len(DateStrs) : DateStrs[d] = v

\* HybridSearchRequest: query of at least one character, top_k in 1..100
ValidHybrid(body) ==
    /\ StrLen(body.query) >= 1
    /\ body.top_k >= 1
    /\ body.top_k <= MaxTopK
    /\ validate_date_format(body.start_date)
    /\ validate_date_format(body.end_date)

\* the parsed model keeps the declared fields; pydantic drops every other key
HybridSearchRequest(body) ==
    [query |-> body.query, top_k |-> body.top_k, authors |-> body.authors,
     organizations |-> body.organizations, keywords |-> body.keywords,
     formats |-> body.formats, start_date |-> body.start_date,
     end_date |-> body.end_date]

parse_date_string(s) ==
    IF \E d \in 1..Len(DateStrs) : DateStrs[d] = s
    THEN CHOOSE d \in 1..Len(DateStrs) : DateStrs[d] = s
    ELSE NoDate

\* semantic_search: results whose dataset is in the database, ranks kept
\* a plausible slip: once an answer has gone out, later searches are served
\* from a result cache that holds the hits worst first
semantic_search_cached(q, top_k, ids) ==
    LET results == search(q, top_k, ids)
        kept == SelectSeq(results, LAMBDA r : r.dataset_id \in DbIds)
    IN [items |-> IF remembered = <<>> THEN kept
                  ELSE [i \in 1..Len(kept) |-> kept[Len(kept) + 1 - i]],
        index_calls |-> <<top_k>>]

semantic_search(q, top_k, ids) ==
    LET results == search(q, top_k, ids)
    IN [items |-> SelectSeq(results, LAMBDA r : r.dataset_id \in DbIds),
        index_calls |-> <<top_k>>]

\* a plausible slip: over-fetch four times the requested size
initial_k_four(top_k) == top_k * 4

\* initial_k = request.top_k * 3
initial_k(top_k) == top_k * 3

\* or_(*[column.contains(v) for v in needles]) over the related rows
AnyContains(values, needles) ==
    \E v \in values : \E i \in 1..Len(needles) : Contains(v, needles[i])

\* and_(*filters) for dataset `id`: authors, keywords, start_date, end_date
PassesFilters(id, req, candidate_ids) ==
    /\ id \in candidate_ids
    /\ id \in DbIds
    /\ req.authors # <<>> => AnyContains(Row(id).authors, req.authors)
    /\ req.keywords # <<>> => AnyContains(Row(id).keywords, req.keywords)
    /\ (req.start_date # None /\ parse_date_string(req.start_date) # NoDate)
          => /\ Row(id).publication_date # NoDate
             /\ Row(id).publication_date >= parse_date_string(req.start_date)
    /\ (req.end_date # None /\ parse_date_string(req.end_date) # NoDate)
          => /\ Row(id).publication_date # NoDate
             /\ Row(id).publication_date <= parse_date_string(req.end_date)

\* filtered_datasets = {d.id: d for d in query.all()}
filtered_datasets(results, req) ==
    LET candidate_ids == {results[i].dataset_id : i \in 1..Len(results)}
    IN {id \in candidate_ids : PassesFilters(id, req, candidate_ids)}

\* a plausible slip: the candidates are walked worst first
RECURSIVE rerank_reversed(_, _, _, _)
rerank_reversed(results, filtered, top_k, rank) ==
    IF results = <<>> \/ rank > top_k THEN <<>>
    ELSE LET last == results[Len(results)]
             rest == SubSeq(results, 1, Len(results) - 1)
         IN IF last.dataset_id \in filtered
            THEN <<[last EXCEPT !.rank = rank]>>
                 \o rerank_reversed(rest, filtered, top_k, rank + 1)
            ELSE rerank_reversed(rest, filtered, top_k, rank)

\* Step 4: walk the candidates in similarity order, number the kept ones from
\* `rank`, stop once rank > top_k
RECURSIVE rerank_from(_, _, _, _)
rerank_from(results, filtered, top_k, rank) ==
    IF results = <<>> \/ rank > top_k THEN <<>>
    ELSE IF Head(results).dataset_id \in filtered
         THEN <<[Head(results) EXCEPT !.rank = rank]>>
              \o rerank_from(Tail(results), filtered, top_k, rank + 1)
         ELSE rerank_from(Tail(results), filtered, top_k, rank)

rerank(results, filtered, top_k, rank) == rerank_from(results, filtered, top_k, rank)

\* hybrid_search: one engine search of initial_k candidates, SQL filters, re-rank
hybrid_search(req, ids) ==
    LET k == initial_k(req.top_k)
        results == search(req.query, k, ids)
    IN [items |-> rerank(results, filtered_datasets(results, req), req.top_k, 1),
        index_calls |-> <<k>>]

Response(status, out) ==
    <<[status |-> status, results |-> out.items, total |-> Len(out.items),
       index_calls |-> out.index_calls]>>

ErrorResponse(status) == Response(status, [items |-> <<>>, index_calls |-> <<>>])

-----------------------------------------------------------------------------
(* Frontend: the filters store and the search page *)

\* states of the `filters` store (its query field is overwritten by
\* performSearch and left out)
FilterStates ==
    [authors : {<<>>, <<"Ann">>}, organizations : {<<>>, <<"BGS">>},
     keywords : {<<>>, <<"soil">>}, startDate : {NoDate, 2}, endDate : {NoDate, 2},
     formats : {<<>>, <<"netcdf">>}, spatialExtent : {None, "arctic"}]

activeFilterCount(f) ==
    (IF Len(f.authors) > 0 THEN 1 ELSE 0)
    + (IF Len(f.organizations) > 0 THEN 1 ELSE 0)
    + (IF Len(f.keywords) > 0 THEN 1 ELSE 0)
    + (IF f.startDate # NoDate \/ f.endDate # NoDate THEN 1 ELSE 0)
    + (IF Len(f.formats) > 0 THEN 1 ELSE 0)
    + (IF f.spatialExtent # None THEN 1 ELSE 0)

\* a plausible slip: only the list-valued filters are looked at
hasActiveFilters_lists(f) ==
    Len(f.authors) + Len(f.organizations) + Len(f.keywords) + Len(f.formats) > 0

hasActiveFilters(f) == activeFilterCount(f) > 0

\* formatDate: the date as YYYY-MM-DD
formatDate(date) == IF date = NoDate THEN None ELSE DateStrs[date]

\* buildFilterParams: the request keys the page sends for a filter state
buildFilterParams(f) ==
    [BlankBody EXCEPT !.authors = f.authors, !.organizations = f.organizations,
                      !.keywords = f.keywords,
                      !.date_from = formatDate(f.startDate),
                      !.date_to = formatDate(f.endDate),
                      !.formats = f.formats,
                      !.spatial_extent = f.spatialExtent]

\* performSearch: the request the page posts for `searchQuery` and filters `f`
performSearch(searchQuery, f) ==
    IF hasActiveFilters(f)
    THEN [route |-> "hybrid",
          body |-> [buildFilterParams(f) EXCEPT !.query = Strip(searchQuery),
                                                !.top_k = PageTopK],
          ui |-> <<f>>]
    ELSE [route |-> "semantic",
          body |-> [BlankBody EXCEPT !.query = Strip(searchQuery), !.top_k = PageTopK],
          ui |-> <<f>>]

-----------------------------------------------------------------------------
(* The search page: performSearch and its callers *)

MaxSearches == 3

\* the reset store
NoFilters ==
    [authors |-> <<>>, organizations |-> <<>>, keywords |-> <<>>,
     startDate |-> NoDate, endDate |-> NoDate, formats |-> <<>>,
     spatialExtent |-> None]

\* filter states the user can set: none, or one filter of each kind
PageFilters ==
    {f \in FilterStates :
        Cardinality({k \in DOMAIN f : f[k] # NoFilters[k]}) <= 1}

\* onMount without ?q=: resetFilters(), nothing searched yet
InitPage ==
    /\ ui_searchQuery = ""
    /\ filters = NoFilters
    /\ ui_results = <<>>
    /\ loading = FALSE
    /\ error = <<>>
    /\ processingTime = 0
    /\ hasSearched = FALSE
    /\ ui_pending = {}
    /\ issued = 0
    /\ ui_pc = "idle"
    /\ file_identifier = "id1"
    /\ xml_data = NoData
    /\ json_data = NoData
    /\ jsonld_data = NoData
    /\ rdf_data = NoData
    /\ dataset = NoData
    /\ session_new = <<>>
    /\ store = <<>>
    /\ result = NoData
    /\ etl_pc = "done"
    /\ SrvQuiet
    /\ BatchQuiet
    /\ index_file = <<>>
    /\ metadata_file = <<>>
    /\ embeddings_table = <<>>
    /\ gen_datasets = <<>>
    /\ gen_run = 0
    /\ gen_pc = "idle"
    /\ engine_index = <<>>
    /\ engine_metadata = <<>>
    /\ engine_pc = "new"
    /\ remembered = <<>>
    /\ ExtQuiet
    /\ WidgetsQuiet

\* the user types in the search box (bind:value) or changes a filter
UserEdits ==
    /\ ui_pc = "idle"
    /\ \/ /\ ui_searchQuery' \in {"", " ", "soil"} \ {ui_searchQuery}
          /\ UNCHANGED filters
       \/ /\ filters' \in PageFilters \ {filters}
          /\ UNCHANGED ui_searchQuery
    /\ UNCHANGED <<ui_results, loading, error, processingTime, hasSearched, ui_pending,
                   issued, ui_pc>>
    /\ UNCHANGED <<etl_vars, srv_vars, batch_vars, gen_vars, client_vars, ext_vars,
                   browse_vars, modal_vars>>

\* the callers of performSearch: handleSearch (Enter with a non-blank box; the
\* Search button is the same but disabled while loading), handleApplyFilters
\* (the Apply button, disabled without an active filter), the Try Again button
\* of the error card, and the reactive statement watching ?q=
Trigger ==
    /\ ui_pc = "idle"
    /\ issued < MaxSearches
    /\ \/ /\ Strip(ui_searchQuery) # ""
          /\ hasSearched' = FALSE
          /\ UNCHANGED ui_searchQuery
       \/ /\ activeFilterCount(filters) # 0
          /\ hasSearched' = FALSE
          /\ UNCHANGED ui_searchQuery
       \/ /\ ~loading
          /\ error # <<>>
          /\ UNCHANGED <<hasSearched, ui_searchQuery>>
       \/ /\ ~hasSearched
          /\ ui_searchQuery' \in {" ", "soil"} \ {ui_searchQuery}
          /\ UNCHANGED hasSearched
    /\ ui_pc' = "perform"
    /\ UNCHANGED <<filters, ui_results, loading, error, processingTime,
                   ui_pending, issued>>
    /\ UNCHANGED <<etl_vars, srv_vars, batch_vars, gen_vars, client_vars, ext_vars,
                   browse_vars, modal_vars>>

\* performSearch up to its await: the early return, or the flags and the post
PerformSearch ==
    /\ ui_pc = "perform"
    /\ IF Strip(ui_searchQuery) = "" /\ ~hasActiveFilters(filters)
       THEN UNCHANGED <<loading, error, hasSearched, ui_pending, issued>>
       ELSE /\ loading' = TRUE
            /\ error' = <<>>
            /\ hasSearched' = TRUE
            /\ issued' = issued + 1
            /\ ui_pending' = ui_pending \cup
                   {[id |-> issued + 1,
                     route |-> performSearch(ui_searchQuery, filters).route]}
    /\ ui_pc' = "idle"
    /\ UNCHANGED <<ui_searchQuery, filters, ui_results, processingTime>>
    /\ UNCHANGED <<etl_vars, srv_vars, batch_vars, gen_vars, client_vars, ext_vars,
                   browse_vars, modal_vars>>

\* an awaited post settles: the response (its list may be empty) is shown, or
\* the interceptor's Error is caught; `finally` clears the loading flag
Settle ==
    /\ ui_pc = "idle"
    /\ \E r \in ui_pending :
          /\ ui_pending' = ui_pending \ {r}
          /\ \/ /\ ui_results' \in {<<>>, <<r.id>>}
                /\ processingTime' = r.id
                /\ UNCHANGED error
             \/ /\ error' = <<r.id>>
                /\ ui_results' = <<>>
                /\ UNCHANGED processingTime
    /\ loading' = FALSE
    /\ UNCHANGED <<ui_searchQuery, filters, hasSearched, issued, ui_pc>>
    /\ UNCHANGED <<etl_vars, srv_vars, batch_vars, gen_vars, client_vars, ext_vars,
                   browse_vars, modal_vars>>

NextPage ==
    \/ UserEdits
    \/ Trigger
    \/ PerformSearch
    \/ Settle

SpecPage == InitPage /\ [][NextPage]_vars

-----------------------------------------------------------------------------
(* The browse page: pagination *)

pageSize == 12

\* Math.ceil(totalDatasets / pageSize)
totalPages(n) == (n + pageSize - 1) \div pageSize

\* values of ?page= (none, or some text) and parseInt of them; text that
\* does not start with a number gives NaN and is left out
PageParams == {"", "0", "-1", "2", "3abc", "99"}

parseInt(text) ==
    CASE text = "0" -> 0
      [] text = "-1" -> -1
      [] text = "1" -> 1
      [] text = "2" -> 2
      [] text = "3abc" -> 3
      [] text = "99" -> 99

\* response.total of GET /datasets for the filters and rows of the moment
Totals == {0, 12, 13, 30}

SortFields == {"publication_date", "title", "file_identifier"}

MaxAwaited == 2

\* onMount: resetFilters, loadFromURL, loadDatasets up to its await
InitBrowse ==
    /\ \E p \in PageParams : currentPage = parseInt(IF p = "" THEN "1" ELSE p)
    /\ sortBy \in SortFields
    /\ totalDatasets = 0
    /\ br_loading = TRUE
    /\ awaited = 1
    /\ isOpen = FALSE
    /\ modal_loading = FALSE
    /\ onConfirm = FALSE
    /\ confirming = FALSE
    /\ onClose_calls = 0
    /\ modal_event = "none"
    /\ PageQuiet
    /\ file_identifier = "id1"
    /\ xml_data = NoData
    /\ json_data = NoData
    /\ jsonld_data = NoData
    /\ rdf_data = NoData
    /\ dataset = NoData
    /\ session_new = <<>>
    /\ store = <<>>
    /\ result = NoData
    /\ etl_pc = "done"
    /\ SrvQuiet
    /\ BatchQuiet
    /\ index_file = <<>>
    /\ metadata_file = <<>>
    /\ embeddings_table = <<>>
    /\ gen_datasets = <<>>
    /\ gen_run = 0
    /\ gen_pc = "idle"
    /\ engine_index = <<>>
    /\ engine_metadata = <<>>
    /\ engine_pc = "new"
    /\ remembered = <<>>
    /\ ExtQuiet

\* loadDatasets after its await: the response or the catch, then finally
LoadDatasetsSettles ==
    /\ awaited > 0
    /\ awaited' = awaited - 1
    /\ \/ totalDatasets' \in Totals
       \/ UNCHANGED totalDatasets
    /\ br_loading' = FALSE
    /\ UNCHANGED <<currentPage, sortBy>>
    /\ UNCHANGED <<etl_vars, srv_vars, batch_vars, gen_vars, client_vars, ext_vars,
                   page_vars, modal_vars>>

\* handlePageChange(newPage) from the Previous button, a page number or the
\* Next button; the bar is rendered when not loading and totalPages > 1
handlePageChange ==
    /\ ~br_loading
    /\ totalPages(totalDatasets) > 1
    /\ \E newPage \in ({currentPage - 1} \ {0})
                      \cup 1..totalPages(totalDatasets)
                      \cup ({currentPage + 1} \ {totalPages(totalDatasets) + 1}) :
          IF newPage < 1 \/ newPage > totalPages(totalDatasets)
          THEN UNCHANGED <<currentPage, br_loading, awaited>>
          ELSE /\ currentPage' = newPage
               /\ br_loading' = TRUE
               /\ awaited' = awaited + 1
    /\ UNCHANGED <<totalDatasets, sortBy>>
    /\ UNCHANGED <<etl_vars, srv_vars, batch_vars, gen_vars, client_vars, ext_vars,
                   page_vars, modal_vars>>

\* handleSortChange after the select changed sortBy, and handleApplyFilters
handleSortChange ==
    /\ awaited < MaxAwaited
    /\ \/ sortBy' \in SortFields \ {sortBy}
       \/ UNCHANGED sortBy
    /\ currentPage' = 1
    /\ br_loading' = TRUE
    /\ awaited' = awaited + 1
    /\ UNCHANGED totalDatasets
    /\ UNCHANGED <<etl_vars, srv_vars, batch_vars, gen_vars, client_vars, ext_vars,
                   page_vars, modal_vars>>

NextBrowse ==
    \/ LoadDatasetsSettles
    \/ handlePageChange
    \/ handleSortChange

SpecBrowse == InitBrowse /\ [][NextBrowse]_vars

-----------------------------------------------------------------------------
(* The Modal component *)

MaxCloses == 3

\* a plausible slip: the loading flag is not consulted
handleClose_unguarded(l, m) == [isOpen |-> FALSE, closes |-> m.closes + 1]

\* handleClose on the component state m = [isOpen, closes]
handleClose(l, m) ==
    IF ~l THEN [isOpen |-> FALSE, closes |-> m.closes + 1] ELSE m

ModalState == [isOpen |-> isOpen, closes |-> onClose_calls]

\* the parent mounts the modal closed, with or without an onConfirm callback
InitModal ==
    /\ isOpen = FALSE
    /\ modal_loading = FALSE
    /\ onConfirm \in BOOLEAN
    /\ confirming = FALSE
    /\ onClose_calls = 0
    /\ modal_event = "none"
    /\ currentPage = 1
    /\ totalDatasets = 0
    /\ sortBy = "publication_date"
    /\ br_loading = FALSE
    /\ awaited = 0
    /\ PageQuiet
    /\ file_identifier = "id1"
    /\ xml_data = NoData
    /\ json_data = NoData
    /\ jsonld_data = NoData
    /\ rdf_data = NoData
    /\ dataset = NoData
    /\ session_new = <<>>
    /\ store = <<>>
    /\ result = NoData
    /\ etl_pc = "done"
    /\ SrvQuiet
    /\ BatchQuiet
    /\ index_file = <<>>
    /\ metadata_file = <<>>
    /\ embeddings_table = <<>>
    /\ gen_datasets = <<>>
    /\ gen_run = 0
    /\ gen_pc = "idle"
    /\ engine_index = <<>>
    /\ engine_metadata = <<>>
    /\ engine_pc = "new"
    /\ remembered = <<>>
    /\ ExtQuiet

\* the parent opens the modal or changes the loading prop
ParentSets ==
    /\ \/ /\ ~isOpen
          /\ onClose_calls < MaxCloses
          /\ isOpen' = TRUE
          /\ UNCHANGED modal_loading
       \/ /\ modal_loading' = ~modal_loading
          /\ UNCHANGED isOpen
    /\ modal_event' = "props"
    /\ UNCHANGED <<onConfirm, confirming, onClose_calls>>
    /\ UNCHANGED <<etl_vars, srv_vars, batch_vars, gen_vars, client_vars, ext_vars,
                   page_vars, browse_vars>>

\* a click on the close button or on Cancel (where the template offers them
\* while loading is left open), and a click on the backdrop: handleClose
ClickClose ==
    /\ isOpen
    /\ isOpen' = handleClose(modal_loading, ModalState).isOpen
    /\ onClose_calls' = handleClose(modal_loading, ModalState).closes
    /\ modal_event' \in {"close", "backdrop"}
    /\ UNCHANGED <<modal_loading, onConfirm, confirming>>
    /\ UNCHANGED <<etl_vars, srv_vars, batch_vars, gen_vars, client_vars, ext_vars,
                   page_vars, browse_vars>>

\* handleKeydown on the window, for the Escape key
handleKeydown ==
    /\ IF ~modal_loading /\ isOpen
       THEN /\ isOpen' = handleClose(modal_loading, ModalState).isOpen
            /\ onClose_calls' = handleClose(modal_loading, ModalState).closes
       ELSE UNCHANGED <<isOpen, onClose_calls>>
    /\ modal_event' = "escape"
    /\ UNCHANGED <<modal_loading, onConfirm, confirming>>
    /\ UNCHANGED <<etl_vars, srv_vars, batch_vars, gen_vars, client_vars, ext_vars,
                   page_vars, browse_vars>>

\* handleConfirm up to `await onConfirm()`; the button exists with onConfirm
ConfirmStarts ==
    /\ isOpen
    /\ onConfirm
    /\ ~confirming
    /\ confirming' = TRUE
    /\ modal_event' = "confirm"
    /\ UNCHANGED <<isOpen, modal_loading, onConfirm, onClose_calls>>
    /\ UNCHANGED <<etl_vars, srv_vars, batch_vars, gen_vars, client_vars, ext_vars,
                   page_vars, browse_vars>>

\* handleConfirm after the await: `if (!loading) handleClose()`
ConfirmEnds ==
    /\ confirming
    /\ confirming' = FALSE
    /\ IF ~modal_loading
       THEN /\ isOpen' = handleClose(modal_loading, ModalState).isOpen
            /\ onClose_calls' = handleClose(modal_loading, ModalState).closes
       ELSE UNCHANGED <<isOpen, onClose_calls>>
    /\ modal_event' = "confirmed"
    /\ UNCHANGED <<modal_loading, onConfirm>>
    /\ UNCHANGED <<etl_vars, srv_vars, batch_vars, gen_vars, client_vars, ext_vars,
                   page_vars, browse_vars>>

NextModal ==
    \/ ParentSets
    \/ ClickClose
    \/ handleKeydown
    \/ ConfirmStarts
    \/ ConfirmEnds

SpecModal == InitModal /\ [][NextModal]_vars

-----------------------------------------------------------------------------
(* The API process *)

MaxLoadAttempts == 2

\* top_k values a client posts: below range, in range, above the index size,
\* above range
TopKs == {0, 1, 2, NumSlots + 1, MaxTopK + 1}

ClientSemanticBodies ==
    {[BlankBody EXCEPT !.query = q, !.top_k = k] : q \in Queries, k \in TopKs}

ClientHybridBodies ==
    {[BlankBody EXCEPT !.query = q, !.top_k = k, !.authors = a, !.keywords = kw,
                       !.organizations = o, !.formats = fm,
                       !.start_date = s, !.end_date = e] :
        q \in Queries, k \in TopKs, a \in {<<>>, <<"Ann">>},
        kw \in {<<>>, <<"soil">>}, o \in {<<>>, <<"BGS">>},
        fm \in {<<>>, <<"netcdf">>},
        s \in {None, DateStrs[2], "02/01/2024"}, e \in {None, DateStrs[2]}}

\* the pipeline is not running while the API serves
EtlQuiet ==
    /\ file_identifier = "id1"
    /\ xml_data = NoData
    /\ json_data = NoData
    /\ jsonld_data = NoData
    /\ rdf_data = NoData
    /\ dataset = NoData
    /\ session_new = <<>>
    /\ store = <<>>
    /\ result = NoData
    /\ etl_pc = "done"

InitSearch ==
    /\ wiring \in {"dependency", "startup"}
    /\ srv_pc = "boot"
    /\ search_engine = <<>>
    /\ load_attempts = 0
    /\ dataset_ids = BuiltIds
    /\ request = <<>>
    /\ response = <<>>
    /\ EtlQuiet
    /\ BatchQuiet
    /\ GenQuiet

\* the index, the model and the metadata are all in memory
EngineReady == search_engine = <<LoadedEngine>>

\* api/app.py startup_event: logs the configuration, loads nothing
StartupLogs ==
    /\ srv_pc = "boot"
    /\ wiring = "dependency"
    /\ srv_pc' = "idle"
    /\ UNCHANGED <<wiring, search_engine, load_attempts, dataset_ids, request, response>>
    /\ UNCHANGED <<etl_vars, aux_vars>>

\* startup_event of the "Option 2" wiring: creates the engine and loads it
StartupLoads ==
    /\ srv_pc = "boot"
    /\ wiring = "startup"
    /\ search_engine' = <<LoadedEngine>>
    /\ load_attempts' = load_attempts + 1
    /\ srv_pc' = "idle"
    /\ UNCHANGED <<wiring, dataset_ids, request, response>>
    /\ UNCHANGED <<etl_vars, aux_vars>>

\* the same startup_event when a load raises: the application does not start
StartupLoadFails ==
    /\ srv_pc = "boot"
    /\ wiring = "startup"
    /\ \E stage \in LoadStages : search_engine' = <<PartialEngine(stage)>>
    /\ load_attempts' = load_attempts + 1
    /\ srv_pc' = "exited"
    /\ UNCHANGED <<wiring, dataset_ids, request, response>>
    /\ UNCHANGED <<etl_vars, aux_vars>>

\* a client posts to /search/semantic
ClientSemantic ==
    /\ srv_pc = "idle"
    /\ \E body \in ClientSemanticBodies :
          request' = <<[route |-> "semantic", body |-> body, ui |-> <<>>]>>
    /\ response' = <<>>
    /\ srv_pc' = "deps"
    /\ UNCHANGED <<wiring, search_engine, load_attempts, dataset_ids>>
    /\ UNCHANGED <<etl_vars, aux_vars>>

\* a client posts to /search/hybrid
ClientHybrid ==
    /\ srv_pc = "idle"
    /\ \E body \in ClientHybridBodies :
          request' = <<[route |-> "hybrid", body |-> body, ui |-> <<>>]>>
    /\ response' = <<>>
    /\ srv_pc' = "deps"
    /\ UNCHANGED <<wiring, search_engine, load_attempts, dataset_ids>>
    /\ UNCHANGED <<etl_vars, aux_vars>>

\* the search page runs performSearch
PageSearch ==
    /\ srv_pc = "idle"
    /\ \E searchQuery \in {"", " ", "soil"}, f \in FilterStates :
          /\ Strip(searchQuery) # "" \/ hasActiveFilters(f)
          /\ request' = <<performSearch(searchQuery, f)>>
    /\ response' = <<>>
    /\ srv_pc' = "deps"
    /\ UNCHANGED <<wiring, search_engine, load_attempts, dataset_ids>>
    /\ UNCHANGED <<etl_vars, aux_vars>>

\* get_search_engine under lru_cache: a cached engine is returned as is
GetEngineCached ==
    /\ srv_pc = "deps"
    /\ wiring = "dependency"
    /\ search_engine # <<>>
    /\ srv_pc' = "route"
    /\ UNCHANGED <<wiring, search_engine, load_attempts, dataset_ids, request, response>>
    /\ UNCHANGED <<etl_vars, aux_vars>>

\* get_search_engine, first access: builds the engine, loads index, model and
\* metadata, and the cache keeps the result
GetEngineLoads ==
    /\ srv_pc = "deps"
    /\ wiring = "dependency"
    /\ search_engine = <<>>
    /\ load_attempts < MaxLoadAttempts
    /\ search_engine' = <<LoadedEngine>>
    /\ load_attempts' = load_attempts + 1
    /\ srv_pc' = "route"
    /\ UNCHANGED <<wiring, dataset_ids, request, response>>
    /\ UNCHANGED <<etl_vars, aux_vars>>

\* get_search_engine, first access, a load raises: nothing is cached and the
\* general exception handler answers 500
GetEngineLoadFails ==
    /\ srv_pc = "deps"
    /\ wiring = "dependency"
    /\ search_engine = <<>>
    /\ load_attempts < MaxLoadAttempts
    /\ load_attempts' = load_attempts + 1
    /\ response' = ErrorResponse(500)
    /\ srv_pc' = "respond"
    /\ UNCHANGED <<wiring, search_engine, dataset_ids, request>>
    /\ UNCHANGED <<etl_vars, aux_vars>>

\* get_search_engine of the "Option 2" wiring: the engine startup_event
\* stored, or RuntimeError when there is none
GetEnginePreloaded ==
    /\ srv_pc = "deps"
    /\ wiring = "startup"
    /\ IF search_engine = <<>>
       THEN response' = ErrorResponse(500) /\ srv_pc' = "respond"
       ELSE response' = response /\ srv_pc' = "route"
    /\ UNCHANGED <<wiring, search_engine, load_attempts, dataset_ids, request>>
    /\ UNCHANGED <<etl_vars, aux_vars>>

\* search() calls load_index, load_metadata and load_model, each of which
\* loads only what is still None
search_loads(engine) == IF engine = LoadedEngine THEN 0 ELSE 1

\* POST /search/semantic: 422 from the request model, else the route body
HandleSemantic ==
    /\ srv_pc = "route"
    /\ request[1].route = "semantic"
    /\ LET body == request[1].body
       IN IF ~ValidSemantic(body)
          THEN /\ response' = ErrorResponse(422)
               /\ UNCHANGED <<search_engine, load_attempts>>
          ELSE /\ response' = Response(200, semantic_search(Strip(body.query),
                                                            body.top_k, dataset_ids))
               /\ load_attempts' = load_attempts + search_loads(search_engine[1])
               /\ search_engine' = <<LoadedEngine>>
    /\ srv_pc' = "respond"
    /\ UNCHANGED <<wiring, dataset_ids, request>>
    /\ UNCHANGED <<etl_vars, aux_vars>>

\* POST /search/hybrid: 422 from the request model, else the route body
HandleHybrid ==
    /\ srv_pc = "route"
    /\ request[1].route = "hybrid"
    /\ LET body == request[1].body
       IN IF ~ValidHybrid(body)
          THEN /\ response' = ErrorResponse(422)
               /\ UNCHANGED <<search_engine, load_attempts>>
          ELSE /\ response' = Response(200, hybrid_search(HybridSearchRequest(body),
                                                          dataset_ids))
               /\ load_attempts' = load_attempts + search_loads(search_engine[1])
               /\ search_engine' = <<LoadedEngine>>
    /\ srv_pc' = "respond"
    /\ UNCHANGED <<wiring, dataset_ids, request>>
    /\ UNCHANGED <<etl_vars, aux_vars>>

\* the response goes out and the request scope ends
SendResponse ==
    /\ srv_pc = "respond"
    /\ request' = <<>>
    /\ response' = <<>>
    /\ srv_pc' = "idle"
    /\ UNCHANGED <<wiring, search_engine, load_attempts, dataset_ids>>
    /\ UNCHANGED <<etl_vars, aux_vars>>

NextSearch ==
    \/ StartupLogs \/ StartupLoads \/ StartupLoadFails
    \/ ClientSemantic \/ ClientHybrid \/ PageSearch
    \/ GetEngineCached \/ GetEngineLoads \/ GetEngineLoadFails \/ GetEnginePreloaded
    \/ HandleSemantic \/ HandleHybrid \/ SendResponse

SpecSearch == InitSearch /\ [][NextSearch]_vars

\* the record keys of a result list, in order
RecordKeys(items) == [i \in 1..Len(items) |-> items[i].dataset_id]

\* the response to a semantic search goes out and the client keeps it to
\* compare later answers with
KeepAnswer ==
    /\ srv_pc = "respond"
    /\ request[1].route = "semantic"
    /\ response[1].status = 200
    /\ remembered = <<>>
    /\ remembered' = <<[query |-> request[1].body.query,
                        top_k |-> request[1].body.top_k,
                        keys |-> RecordKeys(response[1].results)]>>
    /\ request' = <<>>
    /\ response' = <<>>
    /\ srv_pc' = "idle"
    /\ UNCHANGED <<wiring, search_engine, load_attempts, dataset_ids>>
    /\ UNCHANGED <<etl_vars, batch_vars, gen_vars, ext_vars, ui_vars>>

NextRepeat ==
    \/ NextSearch
    \/ KeepAnswer

\* the API process with a client that repeats searches
SpecRepeat == InitSearch /\ [][NextRepeat]_vars

-----------------------------------------------------------------------------
(* Claims about the reconciliation engine *)

Merged == dataset # NoData

\* the value the highest-priority source of `field` supplies (None if that
\* source was not extracted or does not carry the key)
TopValue(field) ==
    Get(DataOf(Priority(field)[1][1], xml_data, json_data, jsonld_data, rdf_data),
        Priority(field)[1][2])

Succeeded == {fmt \in Formats :
                 TruthyData(DataOf(fmt, xml_data, json_data, jsonld_data, rdf_data))}

ExtractionOver == etl_pc \in {"check", "add", "commit", "done"}

SoleSource == DataOf(CHOOSE fmt \in Succeeded : TRUE,
                     xml_data, json_data, jsonld_data, rdf_data)[1]

ValidRecord(d) == ~TitleMissing(d) /\ d.file_identifier # None

\* every value of the record comes from `src` (or is a default), and the
\* natural key is the source's or the requested identifier
BuiltOnlyFrom(d, src) ==
    /\ \A field \in MergedFields :
          d.f[field] \in {None} \cup {src.s[k] : k \in ScalarKeys}
    /\ d.file_identifier \in {src.s.file_identifier, file_identifier}
    /\ Range(d.contacts) \subseteq Range(src.contacts)
    /\ Range(d.keywords) \subseteq Range(src.keywords)
    /\ \A i \in 1..Len(d.metadata_documents) :
          d.metadata_documents[i].content = src.raw

\* C2 as stated: with exactly one extractor succeeding, the merge produces a
\* valid record (non-empty title, non-null natural key) from that source.
C2_Original ==
    (etl_pc \in {"add", "commit", "done"} /\ Cardinality(Succeeded) = 1)
        => (Merged /\ ValidRecord(dataset[1]) /\ BuiltOnlyFrom(dataset[1], SoleSource))

\* C2 amended: with exactly one extractor succeeding the failures are not
\* fatal: the merge runs and yields a record with a non-null natural key built
\* only from that source, whose title is that source's title; the record is
\* valid exactly when that source supplies a non-blank title.
C2_Degradation ==
    (etl_pc \in {"add", "commit", "done"} /\ Cardinality(Succeeded) = 1)
        => /\ Merged
           /\ dataset[1].file_identifier # None
           /\ BuiltOnlyFrom(dataset[1], SoleSource)
           /\ dataset[1].f.title = SoleSource.s.title
           /\ ValidRecord(dataset[1]) <=> (TruthyStr(SoleSource.s.title)
                                           /\ TruthyStr(Strip(SoleSource.s.title)))

\* C2 witness: only the RDF extractor succeeded and its record was committed
C2_Witness ==
    /\ etl_pc = "done"
    /\ Succeeded = {"rdf"}
    /\ result # NoData
    /\ result[1].f.title = "T-rdf"
    /\ result[1].file_identifier = file_identifier
    /\ Len(store) > 0 /\ store[Len(store)] = result[1]

\* C3: when none of the four formats is extracted, process_dataset returns
\* None, builds no record and writes nothing: the session holds no pending
\* object and the datasets table is as it was before the call.
C3_ZeroFormats ==
    (ExtractionOver /\ Succeeded = {})
        => /\ dataset = NoData
           /\ session_new = <<>>
           /\ store \in InitialStores
           /\ etl_pc \in {"check", "done"}
           /\ etl_pc = "done" => result = NoData

\* C3 witness: all four extractions failed and process_dataset returned None
C3_Witness ==
    /\ etl_pc = "done"
    /\ Succeeded = {}
    /\ result = NoData
    /\ store = <<>>

CountContact(seq, c) == Cardinality({i \in 1..Len(seq) : seq[i] = c})

CountKeyword(seq, id) == Cardinality({i \in 1..Len(seq) : <<seq[i].keyword, seq[i].keyword_type>> = id})

\* the contact lists and keyword lists the sources supplied
SuppliedContacts(fmt) ==
    LET d == DataOf(fmt, xml_data, json_data, jsonld_data, rdf_data)
    IN IF fmt = "jsonld" THEN Range(GetList(d, "creator"))
       ELSE Range(GetList(d, "contacts"))

KeywordIdentity(k) == <<k.keyword, k.keyword_type>>

SuppliedKeywords(fmt) ==
    LET d == DataOf(fmt, xml_data, json_data, jsonld_data, rdf_data)
    IN {KeywordIdentity(k) : k \in Range(GetList(d, "keywords"))}

\* C4 as stated: a contact (name, email) or keyword (text, type) present in
\* two sources has exactly one entry in the merged collection.
C4_DedupIdempotence ==
    Merged =>
      /\ \A c \in ContactVals :
            Cardinality({fmt \in Formats : c \in SuppliedContacts(fmt)}) >= 2
                => CountContact(dataset[1].contacts, c) = 1
      /\ \A k \in KeywordVals :
            Cardinality({fmt \in Formats : KeywordIdentity(k) \in SuppliedKeywords(fmt)}) >= 2
                => CountKeyword(dataset[1].keywords, KeywordIdentity(k)) = 1

\* C5 as stated: every contact supplied by any extracted source appears, once,
\* in the merged contacts.
C5_ContactsUnion ==
    Merged =>
      \A c \in ContactVals :
         (\E fmt \in Formats : c \in SuppliedContacts(fmt))
             => CountContact(dataset[1].contacts, c) = 1

-----------------------------------------------------------------------------
(* Claims about the retrieval engine and the search routes *)

\* a request has been served and its response is about to go out
Answered == srv_pc = "respond"

HybridAnswered ==
    /\ Answered
    /\ request[1].route = "hybrid"
    /\ response[1].status = 200

\* what identifies a result whatever its rank number: dataset and score
Keys(items) ==
    [i \in 1..Len(items) |-> <<items[i].dataset_id, items[i].similarity_score>>]

\* a can be obtained from b by deleting elements
RECURSIVE IsSubsequence(_, _)
IsSubsequence(a, b) ==
    IF a = <<>> THEN TRUE
    ELSE IF b = <<>> THEN FALSE
    ELSE IF Head(a) = Head(b) THEN IsSubsequence(Tail(a), Tail(b))
    ELSE IsSubsequence(a, Tail(b))

\* the engine's answer to the same query for three times the requested size
SemanticAtThreeK ==
    search(request[1].body.query, 3 * request[1].body.top_k, dataset_ids)

SuppliedFilters(req) ==
    IF req.ui # <<>>
    THEN [authors |-> req.ui[1].authors, organizations |-> req.ui[1].organizations,
          keywords |-> req.ui[1].keywords, formats |-> req.ui[1].formats,
          start |-> req.ui[1].startDate, end |-> req.ui[1].endDate,
          spatial |-> req.ui[1].spatialExtent]
    ELSE [authors |-> req.body.authors, organizations |-> req.body.organizations,
          keywords |-> req.body.keywords, formats |-> req.body.formats,
          start |-> parse_date_string(req.body.start_date),
          end |-> parse_date_string(req.body.end_date),
          spatial |-> req.body.spatial_extent]

\* dataset `id` satisfies every supplied predicate
Satisfies(id, flt) ==
    /\ flt.keywords # <<>> => AnyContains(Row(id).keywords, flt.keywords)
    /\ flt.start # NoDate => /\ Row(id).publication_date # NoDate
                             /\ Row(id).publication_date >= flt.start
    /\ flt.end # NoDate => /\ Row(id).publication_date # NoDate
                           /\ Row(id).publication_date <= flt.end
    /\ flt.spatial # None => Row(id).spatial = flt.spatial
    /\ flt.authors # <<>> => AnyContains(Row(id).authors, flt.authors)
    /\ flt.organizations # <<>> => AnyContains(Row(id).organizations, flt.organizations)
    /\ flt.formats # <<>> => AnyContains(Row(id).formats, flt.formats)

\* C7 as stated: every record a hybrid search returns satisfies all the
\* structured predicates supplied (keywords, publication-date range, spatial
\* bounds and the other filters), none being ignored between the filter
\* state and the result list.
C7_AllFiltersApplied ==
    HybridAnswered =>
        \A i \in 1..Len(response[1].results) :
            Satisfies(response[1].results[i].dataset_id, SuppliedFilters(request[1]))

C9_FailFast ==
    [][(srv_pc = "deps" /\ ~EngineReady) =>
          /\ srv_pc' = "respond"
          /\ response'[1].status >= 500
          /\ load_attempts' = load_attempts
          /\ search_engine' = search_engine]_vars

\* C10 as stated: the load is started at process start only, and whenever
\* the service accepts requests the engine is Ready after exactly one load.
C10_EagerLoadOnce ==
    [][/\ load_attempts' # load_attempts => srv_pc = "boot"
       /\ srv_pc' \in {"idle", "deps", "route", "respond"} =>
             (EngineReady' /\ load_attempts' = 1)]_vars

\* a load was started and the engine is not in memory: the load has failed
LoadHasFailed == load_attempts >= 1 /\ ~EngineReady

\* C11 as stated: once the load has failed it is never started again, the
\* engine never becomes Ready and no request is answered 200.
C11_LoadFailureFatal ==
    [][LoadHasFailed =>
          /\ load_attempts' = load_attempts
          /\ ~EngineReady'
          /\ response' # <<>> => response'[1].status # 200]_vars

\* a query the specification calls invalid: empty or whitespace only, longer
\* than 500 characters, or with top_k outside 1..100
InvalidQuery(body) ==
    \/ Strip(body.query) = ""
    \/ StrLen(body.query) > MaxQueryLen
    \/ body.top_k < 1
    \/ body.top_k > MaxTopK

\* C12 as stated: on both routes a request with an invalid query is rejected
\* and no index search is executed for it.
C12_InvalidQueryRejected ==
    (Answered /\ InvalidQuery(request[1].body)) =>
        /\ response[1].status # 200
        /\ response[1].index_calls = <<>>

-----------------------------------------------------------------------------
(* Claims about persistence *)

\* every row has a natural key and no two rows share one
KeysUnique(rows) ==
    /\ \A i \in 1..Len(rows) : TruthyStr(rows[i].file_identifier)
    /\ \A i, j \in 1..Len(rows) :
          rows[i].file_identifier = rows[j].file_identifier => i = j

\* the merged record's key is already in the datasets table
KeyExists == get_by_file_identifier(store, dataset[1].file_identifier) # {}

\* C13: the natural key of every persisted record is non-null and unique,
\* and add of a record whose key already exists raises and leaves the
\* datasets table unchanged, with nothing pending in the session.
C13_NaturalKeyUnique ==
    /\ []KeysUnique(store)
    /\ [][(etl_pc = "add" /\ KeyExists) =>
             /\ store' = store
             /\ session_new' = <<>>
             /\ result' = NoData
             /\ etl_pc' = "done"]_vars

\* C13 witness: a well-formed record whose key was already stored went
\* through add, was refused, and the table still holds the one old row
C13_Witness ==
    /\ etl_pc = "done"
    /\ Merged
    /\ ~TitleMissing(dataset[1])
    /\ KeyExists
    /\ result = NoData
    /\ store = <<ExistingRow(file_identifier)>>

\* a title that is null, empty or blank
EmptyTitle(t) == t \in {None, "", " "}

DocFormats(d) == {d.metadata_documents[i].format : i \in 1..Len(d.metadata_documents)}

\* C15 as stated: a persisted record carries exactly one raw document per
\* format that was extracted for it, holding that format's payload.
C15_RawDocsRetained ==
    (etl_pc = "done" /\ result # NoData) =>
        /\ DocFormats(result[1]) = Succeeded
        /\ \A i \in 1..Len(result[1].metadata_documents) :
              LET doc == result[1].metadata_documents[i]
              IN doc.content = DataOf(doc.format, xml_data, json_data,
                                      jsonld_data, rdf_data)[1].raw

-----------------------------------------------------------------------------
(* Claims about batch ingestion *)

\* process_dataset is returning None from its except branch or its no-data exit
CallFails == batch_pc = "call" /\ etl_pc # "done" /\ etl_pc' = "done" /\ result' = NoData

\* the loop is looking at the None a call returned
SeesFailure == batch_pc = "call" /\ etl_pc = "done" /\ result = NoData

\* C16: in a batch every dataset is written in a transaction of its own: a
\* call that fails discards its pending write and leaves the committed rows
\* as they were, no step ever removes or alters a committed row, no pending
\* write is carried from one dataset to the next, and after a failure the
\* loop goes on to the rest of the batch.
C16_TransactionPerDataset ==
    [][/\ Len(store') >= Len(store)
       /\ SubSeq(store', 1, Len(store)) = store
       /\ CallFails => (store' = store /\ session_new' = <<>>)
       /\ batch_pc' = "loop" => session_new' = <<>>
       /\ SeesFailure => (batch' = Tail(batch) /\ batch_pc' = "loop"
                          /\ store' = store)]_vars

\* a dataset was committed, the call for the next one has just returned None,
\* and the committed row is still the whole table
C16_Witness ==
    /\ SeesFailure
    /\ success_count = 1
    /\ Len(store) = 1
    /\ session_new = <<>>

\* C17: a failed ingestion is a count in the summary: whatever the calls
\* return, the loop reaches its output, and there success_count plus
\* failure_count is the number of identifiers of the batch (every failed
\* identifier is in the error log).
C17_FailuresCounted ==
    /\ [](batch_pc = "output" =>
            /\ success_count + failure_count = total
            /\ Len(error_log) = failure_count)
    /\ <>(batch_pc = "output")

C17_Witness ==
    /\ batch_pc = "output"
    /\ total = MaxBatch
    /\ failure_count >= 1
    /\ success_count >= 1

-----------------------------------------------------------------------------
(* Claims about embedding generation *)

\* C18 as stated: when a generation run has ended, however it ended, the
\* index file, the metadata file, the embeddings table and the datasets table
\* all have the same number of entries.
C18_ArtifactsInStep ==
    gen_pc = "done" =>
        /\ Size(index_file) = Size(metadata_file)
        /\ Size(metadata_file) = Len(embeddings_table)
        /\ Len(embeddings_table) = Len(store)

\* C19 as stated: whatever a generation run does meanwhile, the index and the
\* metadata a serving process searches with were written by the same run.
C19_OneSnapshot ==
    engine_pc \in {"ready", "searched"} =>
        engine_index[1].run = engine_metadata[1].run

-----------------------------------------------------------------------------
(* Claims about repeated searches *)

\* the answer on its way out is a 200 to the same semantic search (same q,
\* same k) as the one the client kept
SameSearchAgain ==
    /\ srv_pc = "respond"
    /\ request[1].route = "semantic"
    /\ response[1].status = 200
    /\ remembered # <<>>
    /\ request[1].body.query = remembered[1].query
    /\ request[1].body.top_k = remembered[1].top_k

-----------------------------------------------------------------------------
(* Claims about the extractors *)

Raised == ext_pc = "done" /\ ext_out[1].kind = "ExtractionError"

\* C21 as stated: when extract ends it has either returned a validated
\* result or raised an ExtractionError that carries the extractor's format
\* tag and the cause of the failure.
C21_ErrorCarriesFormat ==
    ext_pc = "done" =>
        \/ /\ ext_out[1].kind = "returned"
           /\ ValidateOf(ext_fmt, ext_out[1].data[1])
        \/ /\ Raised
           /\ ext_fmt \in Range(ext_out[1].message)
           /\ Len(ext_out[1].message) > 2

\* C22 as stated: a fetch that failed on every attempt made RetryCount
\* attempts, slept between each two consecutive attempts, every delay twice
\* the one before, and ended in an ExtractionError.
C22_BackoffBetweenAttempts ==
    (Raised /\ "RequestException" \in Range(ext_out[1].message)) =>
        /\ attempt + 1 = RetryCount
        /\ Len(waits) = attempt
        /\ \A i \in 2..Len(waits) : waits[i] = 2 * waits[i - 1]

-----------------------------------------------------------------------------
(* Claims about the search page *)

\* the template shows the result cards: not loading, no error card, a list
ResultsDisplayed == ~loading /\ error = <<>> /\ ui_results # <<>>

Settled == ui_pc = "idle" /\ ui_pending = {}

\* C23 as stated: the results of an earlier query are never displayed while
\* a new search is in progress.
C23_NoStaleResults ==
    (ui_pc = "idle" /\ ui_pending # {}) => ~ResultsDisplayed

\* C24 as stated: once every request has settled, the results, the processing
\* time and the error on the page are those of the search issued last.
C24_LastSearchWins ==
    (Settled /\ issued > 0) =>
        /\ ui_results # <<>> => ui_results = <<issued>>
        /\ error # <<>> => error = <<issued>>
        /\ error = <<>> => processingTime = issued

\* C25 as stated: loading is true whenever a request issued by performSearch
\* is outstanding, and false once every one of them has settled.
C25_LoadingWhileOutstanding ==
    ui_pc = "idle" => (loading <=> ui_pending # {})

\* C26 as stated: with no request outstanding, error and results are never
\* both populated.
C26_ErrorOrResults ==
    Settled => ~(error # <<>> /\ ui_results # <<>>)

\* C28: performSearch posts to the hybrid endpoint exactly when some filter is
\* set and to the semantic endpoint otherwise; with a blank trimmed query and
\* no filter set it posts nothing and leaves the page state as it was.
C28_EndpointByFilters ==
    [][ui_pc = "perform" =>
         IF ui_searchQuery \in {"", " "} /\ filters = NoFilters
         THEN UNCHANGED <<ui_searchQuery, filters, ui_results, loading, error,
                          processingTime, hasSearched, ui_pending, issued>>
         ELSE /\ Cardinality(ui_pending') = Cardinality(ui_pending) + 1
              /\ \A r \in ui_pending' \ ui_pending :
                    r.route = IF filters = NoFilters THEN "semantic" ELSE "hybrid"]_vars

\* both endpoints have been chosen, the hybrid one for a filter that is not a list
C28_Witness ==
    /\ \E r \in ui_pending : r.route = "semantic"
    /\ \E r \in ui_pending : r.route = "hybrid"
    /\ filters.spatialExtent # None

-----------------------------------------------------------------------------
(* Claims about the size of the index *)

\* what SemanticSearchEngine.search returned to the route that answered
EngineResults ==
    search(Strip(request[1].body.query), response[1].index_calls[1], dataset_ids)

\* C27 as stated: search over an index of NumSlots vectors returns at most
\* min(top_k, NumSlots) results and no record twice, also for the 3k
\* over-fetch of the hybrid route.
C27_DistinctValidSlots ==
    (Answered /\ response[1].status = 200) =>
        /\ Len(EngineResults) <= NumSlots
        /\ Len(EngineResults) <= response[1].index_calls[1]
        /\ \A i, j \in 1..Len(EngineResults) :
              EngineResults[i].dataset_id = EngineResults[j].dataset_id => i = j

-----------------------------------------------------------------------------
(* Claims about the browse page and the modal *)

\* C29 as stated: on the browse page 1 <= currentPage <= max(1, totalPages)
\* whenever a page is requested or displayed.
C29_PageInRange ==
    (awaited > 0 \/ ~br_loading) =>
        /\ 1 <= currentPage
        /\ currentPage <= IF totalPages(totalDatasets) > 1
                          THEN totalPages(totalDatasets) ELSE 1

\* C30: while the loading prop is true, a click on the close button or the
\* backdrop, the Escape key and the end of handleConfirm leave isOpen as it
\* is and do not call onClose.
C30_NoCloseWhileLoading ==
    [][(modal_loading /\ (ClickClose \/ handleKeydown \/ ConfirmEnds)) =>
          (isOpen' = isOpen /\ onClose_calls' = onClose_calls)]_vars

\* handleConfirm has ended while loading and the modal is still open
C30_Witness ==
    /\ modal_loading
    /\ isOpen
    /\ modal_event = "confirmed"

====
